---- MODULE Spec2Model ----
(***************************************************************************)
(* A model of the MOCC transport solver: the discrete-ordinates (Sn)       *)
(* sweeper, the fixed-source group loop, the 2D3D composite sweeper, the   *)
(* sweeper factory, the Core and Assembly constructors and the            *)
(* cross-section meshes (XSMesh, XSMeshHomogenized).                       *)
(*                                                                         *)
(* Floating-point quantities that the sweep moves around (angular fluxes   *)
(* on faces, scalar-flux contributions, sources) are modelled by           *)
(* provenance records naming the inner iteration, angle, cell and axis     *)
(* that produced them, so that data-flow and ordering are observable.      *)
(***************************************************************************)
EXTENDS Integers, Sequences, FiniteSets, TLC

\* ------------------------------------------------------------------ bounds
\* Largest number of cells along one axis of the Sn mesh.
MaxN == 2
\* Largest n_inner the input may carry.
MaxInner == 2
\* Number of energy groups of the Sn cross-section mesh.
NGroup == 2
\* Directions per octant of the angular quadrature.
NDirOct == 1
\* Largest number of cells of the Sn mesh.
MaxCells == 8
\* Largest number of groups of the fixed-source solver's sweeper.
MaxFssGroups == 3
\* Number of FixedSourceSolver::step() calls followed.
MaxSteps == 3
\* Number of outer iterations of the 2D3D sweeper followed.
MaxOuter == 3
\* Largest n_inactive_moc and moc_modulo of the 2D3D sweeper's input.
MaxInactive == 2
MaxModulo == 2
\* Largest core dimension, and largest number of assemblies of a core.
MaxCoreN == 2
MaxCoreCells == 4
\* Largest number of planes (np) of an assembly node, and largest plane height
\* of its hz attribute.
MaxPlanes == 2
MaxHz == 2
\* Largest number of pins of the cross-section mesh, of XS regions of a pin,
\* of flat source regions of an XS region and of flat source regions of the
\* mesh; largest scalar flux value handed to update().
MaxPins == 2
MaxXsPerPin == 2
MaxFsrPerXs == 2
MaxXsRegions == 3
MaxFlux == 1
MaxCycles == 2
MaxParticles == 2
MaxSites == 2
MaxChildren == 2
MaxVisits == 3

VARIABLES
    \* ---- SnSweeperVariant
    sn_pc,          \* position: new, failed, ready, inner, angle, cell, angle_end, done
    sn_err,         \* message of the exception thrown by the constructor, or "none"
    sn_input,       \* the xml node the constructor was given
    mesh_,          \* [nx, ny, nz]
    n_inner_,       \* number of inner iterations
    gs_boundary_,   \* Gauss-Seidel (TRUE) or Jacobi (FALSE) boundary update
    coarse_attached,\* coarse_data_ != nullptr
    coarse_data_,   \* the CoarseData object: [cur, has_axial_data, has_radial_data]
    group,          \* argument of sweep(group)
    inner,          \* loop counter of sweep
    worker,         \* CurrentWorker of the running sweep_1g: "Current" | "NoCurrent"
    iang,           \* loop counter of the angle loop
    pos,            \* <<ix, iy, iz>> of the cell loops
    faces,          \* [X, Y, Z]: the face buffers x_flux, y_flux, z_flux
    flux_,          \* flux_[g][i]: multi-group scalar flux
    flux_1g_,       \* flux_1g_[i]: one-group flux, a sequence of contributions
    q_,             \* q_[i]: one-group source
    xstr_,          \* xstr_[i]: transport cross section of the swept group
    bc_in_,         \* bc_in_[g][a][n][k]
    bc_out_,        \* bc_out_[a][n][k]   (one group)
    sn_log,         \* calls made by sweep: one record per inner
    visited,        \* evaluate() calls of the running angle, in order
    \* ---- FixedSourceSolver
    fss_pc,         \* position of step(): idle, loop, body, failed
    fss_err,        \* message handed to Error(), or "none"
    fs_,            \* the fission source pointer: "null" | "set"
    ng_,            \* number of groups
    ig,             \* loop counter of step()
    fss_k,          \* index of the next call of the loop body
    fss_calls,      \* calls made by the running step(), in order
    fss_steps,      \* step() calls returned so far
    swp_flux,       \* the sweeper's flux, as a sweep count per group
    swp_flux_old,   \* the sweeper's stored old flux
    \* ---- PlaneSweeper_2D3D
    pl_opts,        \* [do_tl, do_snproject, n_inactive_moc, moc_modulo]
    i_outer_,       \* outer iteration index
    pl_cd,          \* coarse data pointers: [self, moc, sn], "null" | "cd"
    pl_tl,          \* tl_ workspace: "unallocated" | "allocated"
    pl_has_axial,   \* CoarseData::has_axial_data
    pl_group,       \* group of the last sweep(group), -1 before the first
    pl_calls,       \* calls made by the last sweep(group), in order
    pl_corr,        \* corrections_: per group, the outer whose MoC sweep wrote them
    \* ---- construction of sweepers and geometry
    bd_op,          \* what was constructed: none, factory, core, assembly
    fac_type,       \* the sweeper type attribute
    fac_result,     \* what the factory returned or threw
    core_input,     \* [nx, ny, ids]: the core node
    core_,          \* the Core constructed, or how construction ended
    asy_input,      \* [id, np, hz, hz_child, lattices]: the assembly node
    asy_,           \* the Assembly constructed, or how construction ended
    \* ---- XSMesh and XSMeshHomogenized
    xs_op,          \* last operation: none, fine, hom, update
    xs_mesh,        \* the pins of the CoreMesh, in iteration order
    fine_regions_,  \* XSMesh::regions_
    regions_,       \* XSMeshHomogenized::regions_
    xs_flux,        \* the flux argument of the last update()
    xs_fs,          \* per pin, the fs vector of the last update()
    xs_repeat,      \* the last update() had the flux of the update() before it
    xs_unchanged,   \* the last update() left regions_ as it was
    \* ---- MonteCarloEigenvalueSolver
    mc_pc,          \* position in solve(): ready, inactive, active, done
    mc_i,           \* loop counter of the running loop of solve()
    n_cycles_,
    n_inactive_cycles_,
    particles_per_cycle_,
    cycle_,
    active_cycle_,
    k_history_,     \* one entry per step: the cycle whose k it is
    h_history_,     \* one entry per step: the cycle whose entropy it is
    k_tally_,       \* [weight, scores]
    flux_tallies_,  \* per group [weight, scores]
    k_mean_history_,
    k_stdev_history_,
    source_bank_,   \* sequence of particles [site, id]
    mc_steps,       \* per step() made, the value of active_cycle_ in it
    \* ---- CoreMesh construction
    cm_pc,          \* position in the constructor
    cm_input,       \* [pin, children, siblings]: the input node
    pins_,          \* how the pin loop ended, with the Pin made if any
    lat,            \* loop variable of the lattice loop
    asy,            \* loop variable of the assembly loop
    lattices_,      \* id -> the node parsed
    assemblies_,    \* id -> the node parsed
    cm_visits,      \* the nodes the two loops parsed, in order
    cm_err,         \* the Error() that ended the assembly loop, or "none"
    \* ---- main
    mn_pc,          \* position in main: start, parse, mesh, solve, ended
    argc,
    solver,         \* the global solver pointer: "null" | "solver"
    mn_core,        \* how Core construction ended
    out_h5,         \* out.h5: "absent" | "empty" | "written"
    mn_exit,        \* "running", or how the process ended
    mn_caught,      \* what main's handler caught: "none" | "Exception"
    mn_sigint,      \* int_handler ran
    mn_null_output  \* output was invoked through the null solver pointer

snVars == <<sn_pc, sn_err, sn_input, mesh_, n_inner_, gs_boundary_, coarse_attached,
            coarse_data_, group, inner, worker, iang, pos, faces, flux_,
            flux_1g_, q_, xstr_, bc_in_, bc_out_, sn_log, visited>>

fssVars == <<fss_pc, fss_err, fs_, ng_, ig, fss_k, fss_calls, fss_steps,
             swp_flux, swp_flux_old>>

plVars == <<pl_opts, i_outer_, pl_cd, pl_tl, pl_has_axial, pl_group, pl_calls,
            pl_corr>>

bdVars == <<bd_op, fac_type, fac_result, core_input, core_, asy_input, asy_>>

xsVars == <<xs_op, xs_mesh, fine_regions_, regions_, xs_flux, xs_fs, xs_repeat,
            xs_unchanged>>

mcVars == <<mc_pc, mc_i, n_cycles_, n_inactive_cycles_, particles_per_cycle_,
            cycle_, active_cycle_, k_history_, h_history_, k_tally_,
            flux_tallies_, k_mean_history_, k_stdev_history_, source_bank_,
            mc_steps>>

cmVars == <<cm_pc, cm_input, pins_, lat, asy, lattices_, assemblies_, cm_visits,
            cm_err>>

mnVars == <<mn_pc, argc, solver, mn_core, out_h5, mn_exit, mn_caught, mn_sigint,
            mn_null_output>>

vars == <<snVars, fssVars, plVars, bdVars, xsVars, mcVars, cmVars, mnVars>>

\* What the operations of one component leave alone: the other components.
snOther == <<fssVars, plVars, bdVars, xsVars, mcVars, cmVars, mnVars>>
fssOther == <<snVars, plVars, bdVars, xsVars, mcVars, cmVars, mnVars>>
plOther == <<snVars, fssVars, bdVars, xsVars, mcVars, cmVars, mnVars>>
bdOther == <<snVars, fssVars, plVars, xsVars, mcVars, cmVars, mnVars>>
xsOther == <<snVars, fssVars, plVars, bdVars, mcVars, cmVars, mnVars>>
mcOther == <<snVars, fssVars, plVars, bdVars, xsVars, cmVars, mnVars>>
cmOther == <<snVars, fssVars, plVars, bdVars, xsVars, mcVars, mnVars>>
mnOther == <<snVars, fssVars, plVars, bdVars, xsVars, mcVars, cmVars>>

\* ------------------------------------------------------- Sn: mesh, angles
Normals == {"X", "Y", "Z"}
Groups == 0 .. (NGroup - 1)
NAng == 8 * NDirOct
Angles == 0 .. (NAng - 1)

NCells(m) == m.nx * m.ny * m.nz
Cells(m) == 0 .. (NCells(m) - 1)

\* Mesh::coarse_cell: lexicographic index of a pin position.
coarse_cell(m, ix, iy, iz) == ix + m.nx * iy + m.nx * m.ny * iz

\* Number of entries of the face with a given normal.
FaceSize(m, n) ==
    CASE n = "X" -> m.ny * m.nz
      [] n = "Y" -> m.nx * m.nz
      [] n = "Z" -> m.nx * m.ny

\* Angle::to_octant: the signs of the direction cosines in octant 1..8.
OctantSigns(oct) ==
    [ox |-> IF oct \in {1, 4, 5, 8} THEN 1 ELSE -1,
     oy |-> IF oct \in {1, 2, 5, 6} THEN 1 ELSE -1,
     oz |-> IF oct \in {1, 2, 3, 4} THEN 1 ELSE -1]

\* The octant handed to the current worker for angle index a.
OctantOf(a) == (a \div NDirOct) + 1

\* The a-th angle of the quadrature (direction cosines by sign).
Ang(a) == OctantSigns(OctantOf(a))

\* AngularQuadrature::reflect: the angle with the cosine along n reversed.
Reflect(a, n) ==
    LET s == Ang(a)
        t == CASE n = "X" -> [s EXCEPT !.ox = -s.ox]
               [] n = "Y" -> [s EXCEPT !.oy = -s.oy]
               [] n = "Z" -> [s EXCEPT !.oz = -s.oz]
    IN CHOOSE b \in Angles : Ang(b) = t /\ b % NDirOct = a % NDirOct

\* --------------------------------------------------- Sn: provenance values
\* The angular flux leaving cell i along axis ax, for angle a of inner k.
OutTag(k, a, i, ax) == [inner |-> k, ang |-> a, cell |-> i, ax |-> ax]
\* The boundary value held before any sweep (slot idx of angle a, normal n).
InitTag(a, n, idx) == [inner |-> -1, ang |-> a, cell |-> idx, ax |-> n]
\* The zero a freshly allocated boundary array holds.
ZeroTag == [inner |-> -2, ang |-> -1, cell |-> -1, ax |-> "0"]
\* A current tallied before the sweep.
StaleCur == [inner |-> -1, ang |-> -1, cell |-> -1]

\* ------------------------------------------------------ Sn: collaborators
\* SnSource::self_scatter: q is a function of the one-group flux handed in.
self_scatter(g, phi) == [i \in DOMAIN phi |-> [g |-> g, phi |-> phi[i]]]

\* sn::CellWorker::evaluate: returns psi and the outgoing face values.
evaluate(psi_x, psi_y, psi_z, qi, xstri, i) ==
    [psi   |-> [inner |-> inner, ang |-> iang],
     psi_x |-> OutTag(inner, iang, i, "X"),
     psi_y |-> OutTag(inner, iang, i, "Y"),
     psi_z |-> OutTag(inner, iang, i, "Z")]

\* CoarseData::zero_data(group)
zero_data(cd, g) == [cd EXCEPT !.cur[g] = {}]

\* sn::Current::current_work / sn::NoCurrent::current_work
current_work(w, cd, i, a, g) ==
    IF w = "Current"
    THEN [cd EXCEPT !.cur[g] = @ \cup {[inner |-> inner, ang |-> a, cell |-> i]}]
    ELSE cd

\* sn::Current::upwind_work / sn::NoCurrent::upwind_work
upwind_work(w, cd, a, g) ==
    IF w = "Current"
    THEN [cd EXCEPT !.cur[g] = @ \cup {[inner |-> inner, ang |-> a, cell |-> -1]}]
    ELSE cd

\* SnBoundary::update(group, ang, out): reflective faces.
update_ang(bc, g, a, out) ==
    [bc EXCEPT ![g] = [b \in Angles |-> [n \in Normals |->
        IF b = Reflect(a, n) THEN out[a][n] ELSE bc[g][b][n]]]]

\* SnBoundary::update(group, out): every angle.
update_all(bc, g, out) ==
    [bc EXCEPT ![g] = [b \in Angles |-> [n \in Normals |->
        out[Reflect(b, n)][n]]]]

\* pugi::xml_attribute::as_int(def): the default for a missing attribute.
Absent == [present |-> FALSE, val |-> 0]
Attr(v) == [present |-> TRUE, val |-> v]
as_int(attr, def) == IF attr.present THEN attr.val ELSE def

\* Error(msg): prints the message and ends the run.
Error(msg) == [status |-> "error", err |-> msg]

\* ------------------------------------------------ Sn: SnSweeperVariant
\* An xml node handed to the constructor: empty, or carrying n_inner and
\* gs_boundary.
EmptyNode == [empty |-> TRUE, n_inner |-> Absent, gs_boundary |-> FALSE]
SnNodes ==
    {EmptyNode} \cup
    [empty : {FALSE},
     n_inner : {Absent} \cup {Attr(v) : v \in -2 .. MaxInner},
     gs_boundary : BOOLEAN]

\* The constructor's checks: the exception it throws ("none" when it returns)
\* and the value stored in n_inner_.
SnCtorResultLax(node) ==
    IF node.empty
    THEN [err |-> "No input specified to initialize Sn sweeper.", n_inner |-> 0]
    ELSE LET int_in == as_int(node.n_inner, -1)
         IN IF int_in <= 0
            THEN [err |-> "Invalid number of inner iterations specified (n_inner).",
                  n_inner |-> 0]
            ELSE [err |-> "none", n_inner |-> int_in]

SnCtorResult(node) ==
    IF node.empty
    THEN [err |-> "No input specified to initialize Sn sweeper.", n_inner |-> 0]
    ELSE LET int_in == as_int(node.n_inner, -1)
         IN IF int_in < 0
            THEN [err |-> "Invalid number of inner iterations specified (n_inner).",
                  n_inner |-> 0]
            ELSE [err |-> "none", n_inner |-> int_in]

\* Whether inner iteration k of sweep runs the capturing current worker.
UseCurrentFirst(k) == k = 0 /\ coarse_attached
UseCurrentNever(k) == FALSE
UseCurrent(k) == k = n_inner_ - 1 /\ coarse_attached

\* The one-group flux left as the inner before left it.
Flux1gKept(f) == f
\* flux_1g_ = 0.0 at the head of sweep_1g.
Flux1gReset(f) == [i \in DOMAIN f |-> <<>>]

\* The flux the self-scatter source of the next inner is built from.
InnerSourceFluxStored == flux_[group]
InnerSourceFlux == flux_1g_

\* Loop bounds of the cell loops for angle a: start, stop and step per axis.
LoopForward(m, a) ==
    [stt |-> [X |-> 0, Y |-> 0, Z |-> 0],
     stp |-> [X |-> m.nx, Y |-> m.ny, Z |-> m.nz],
     dir |-> [X |-> 1, Y |-> 1, Z |-> 1]]
Loop(m, a) ==
    LET s == Ang(a)
    IN [stt |-> [X |-> IF s.ox < 0 THEN m.nx - 1 ELSE 0,
                 Y |-> IF s.oy < 0 THEN m.ny - 1 ELSE 0,
                 Z |-> IF s.oz < 0 THEN m.nz - 1 ELSE 0],
        stp |-> [X |-> IF s.ox < 0 THEN -1 ELSE m.nx,
                 Y |-> IF s.oy < 0 THEN -1 ELSE m.ny,
                 Z |-> IF s.oz < 0 THEN -1 ELSE m.nz],
        dir |-> [X |-> IF s.ox < 0 THEN -1 ELSE 1,
                 Y |-> IF s.oy < 0 THEN -1 ELSE 1,
                 Z |-> IF s.oz < 0 THEN -1 ELSE 1]]

\* bc_in_ after angle a has stored its outgoing faces in out.
BcAfterAngleNever(bc, g, a, out) == bc
BcAfterAngle(bc, g, a, out) ==
    IF gs_boundary_ THEN update_ang(bc, g, a, out) ELSE bc

\* bc_in_ after the last angle of a one-group sweep.
BcAfterSweep(bc, g, out) ==
    IF ~gs_boundary_ THEN update_all(bc, g, out) ELSE bc

\* The CoarseData object before the sweep: stale currents, no flags.
CoarseInit == [cur |-> [g \in Groups |-> {StaleCur}],
               has_axial_data |-> FALSE, has_radial_data |-> FALSE]

Meshes == {m \in [nx : 1 .. MaxN, ny : 1 .. MaxN, nz : 1 .. MaxN] :
              NCells(m) <= MaxCells}

SnInitWith(m) ==
    /\ sn_pc = "new"
    /\ sn_err = "none"
    /\ sn_input = EmptyNode
    /\ mesh_ = m
    /\ n_inner_ = 0
    /\ gs_boundary_ = FALSE
    /\ coarse_attached = FALSE
    /\ coarse_data_ = CoarseInit
    /\ group = 0
    /\ inner = 0
    /\ worker = "NoCurrent"
    /\ iang = 0
    /\ pos = <<0, 0, 0>>
    /\ faces = [n \in Normals |-> [k \in 0 .. (FaceSize(mesh_, n) - 1) |-> ZeroTag]]
    /\ flux_ = [g \in Groups |-> [i \in Cells(mesh_) |->
                    <<[inner |-> -1, ang |-> g]>>]]
    /\ flux_1g_ = [i \in Cells(mesh_) |-> <<>>]
    /\ q_ = [i \in Cells(mesh_) |-> [g |-> -1, phi |-> <<>>]]
    /\ xstr_ = [i \in Cells(mesh_) |-> -1]
    /\ bc_in_ = [g \in Groups |-> [a \in Angles |-> [n \in Normals |->
                    [k \in 0 .. (FaceSize(mesh_, n) - 1) |-> InitTag(a, n, k)]]]]
    /\ bc_out_ = [a \in Angles |-> [n \in Normals |->
                    [k \in 0 .. (FaceSize(mesh_, n) - 1) |-> ZeroTag]]]
    /\ sn_log = <<>>
    /\ visited = <<>>

SnInit == \E m \in Meshes : SnInitWith(m)

\* No Sn sweeper in play.
SnIdle ==
    /\ sn_pc = "new"
    /\ sn_err = "none"
    /\ sn_input = EmptyNode
    /\ mesh_ = [nx |-> 1, ny |-> 1, nz |-> 1]
    /\ n_inner_ = 0
    /\ gs_boundary_ = FALSE
    /\ coarse_attached = FALSE
    /\ coarse_data_ = CoarseInit
    /\ group = 0
    /\ inner = 0
    /\ worker = "NoCurrent"
    /\ iang = 0
    /\ pos = <<0, 0, 0>>
    /\ faces = <<>>
    /\ flux_ = <<>>
    /\ flux_1g_ = <<>>
    /\ q_ = <<>>
    /\ xstr_ = <<>>
    /\ bc_in_ = <<>>
    /\ bc_out_ = <<>>
    /\ sn_log = <<>>
    /\ visited = <<>>

\* SnSweeperVariant(input, mesh)
SnConstruct(node) ==
    /\ sn_pc = "new"
    /\ sn_input' = node
    /\ LET r == SnCtorResult(node)
       IN /\ sn_err' = r.err
          /\ n_inner_' = r.n_inner
          /\ sn_pc' = IF r.err = "none" THEN "ready" ELSE "failed"
          /\ gs_boundary_' = (r.err = "none" /\ node.gs_boundary)
    /\ UNCHANGED <<mesh_, coarse_attached, coarse_data_, group, inner, worker,
                   iang, pos, faces, flux_, flux_1g_, q_, xstr_, bc_in_,
                   bc_out_, sn_log, visited>>
    /\ UNCHANGED snOther

\* TransportSweeper::set_coarse_data
SnSetCoarseData ==
    /\ sn_pc = "ready"
    /\ ~coarse_attached
    /\ coarse_attached' = TRUE
    /\ UNCHANGED <<sn_pc, sn_err, sn_input, mesh_, n_inner_, gs_boundary_, coarse_data_,
                   group, inner, worker, iang, pos, faces, flux_, flux_1g_, q_,
                   xstr_, bc_in_, bc_out_, sn_log, visited>>
    /\ UNCHANGED snOther

\* sweep(group): the prologue, up to the inner loop.
SnSweepBegin(g) ==
    /\ sn_pc = "ready"
    /\ group' = g
    /\ xstr_' = [i \in Cells(mesh_) |-> g]
    /\ flux_1g_' = flux_[g]
    /\ inner' = 0
    /\ sn_pc' = "inner"
    /\ UNCHANGED <<sn_err, sn_input, mesh_, n_inner_, gs_boundary_, coarse_attached,
                   coarse_data_, worker, iang, pos, faces, flux_, q_, bc_in_,
                   bc_out_, sn_log, visited>>
    /\ UNCHANGED snOther

\* One pass of the inner loop up to the angle loop of sweep_1g: the source, the
\* choice of the current worker, zero_data, and sweep_1g's reset of flux_1g_.
SnInnerBegin ==
    /\ sn_pc = "inner"
    /\ inner < n_inner_
    /\ q_' = self_scatter(group, InnerSourceFlux)
    /\ LET cur == UseCurrent(inner)
       IN /\ worker' = IF cur THEN "Current" ELSE "NoCurrent"
          /\ coarse_data_' = IF cur THEN zero_data(coarse_data_, group)
                                    ELSE coarse_data_
          /\ sn_log' = Append(sn_log,
                 [inner |-> inner, zeroed |-> cur,
                  worker |-> IF cur THEN "Current" ELSE "NoCurrent"])
    /\ flux_1g_' = Flux1gReset(flux_1g_)
    /\ iang' = 0
    /\ sn_pc' = "angle"
    /\ UNCHANGED <<sn_err, sn_input, mesh_, n_inner_, gs_boundary_, coarse_attached,
                   group, inner, pos, faces, flux_, xstr_, bc_in_, bc_out_,
                   visited>>
    /\ UNCHANGED snOther

\* The head of the angle loop: loop directions, the upwind faces, upwind_work.
SnAngleBegin ==
    /\ sn_pc = "angle"
    /\ iang < NAng
    /\ LET l == Loop(mesh_, iang)
       IN pos' = <<l.stt.X, l.stt.Y, l.stt.Z>>
    /\ faces' = [n \in Normals |-> bc_in_[group][iang][n]]
    /\ coarse_data_' = upwind_work(worker, coarse_data_, iang, group)
    /\ visited' = <<>>
    /\ sn_pc' = "cell"
    /\ UNCHANGED <<sn_err, sn_input, mesh_, n_inner_, gs_boundary_, coarse_attached,
                   group, inner, worker, iang, flux_, flux_1g_, q_, xstr_,
                   bc_in_, bc_out_, sn_log>>
    /\ UNCHANGED snOther

\* The body of the cell loops for one cell, and the loops' advance.
SnCell ==
    /\ sn_pc = "cell"
    /\ LET ix == pos[1]
           iy == pos[2]
           iz == pos[3]
           nx == mesh_.nx
           ny == mesh_.ny
           l  == Loop(mesh_, iang)
           psi_x == faces.X[ny * iz + iy]
           psi_y == faces.Y[nx * iz + ix]
           psi_z == faces.Z[nx * iy + ix]
           i  == coarse_cell(mesh_, ix, iy, iz)
           ev == evaluate(psi_x, psi_y, psi_z, q_[i], xstr_[i], i)
       IN /\ faces' = [faces EXCEPT !.X[ny * iz + iy] = ev.psi_x,
                                     !.Y[nx * iz + ix] = ev.psi_y,
                                     !.Z[nx * iy + ix] = ev.psi_z]
          /\ flux_1g_' = [flux_1g_ EXCEPT ![i] = Append(@, ev.psi)]
          /\ coarse_data_' = current_work(worker, coarse_data_, i, iang, group)
          /\ visited' = Append(visited,
                 [ix |-> ix, iy |-> iy, iz |-> iz, cell |-> i,
                  psi_x |-> psi_x, psi_y |-> psi_y, psi_z |-> psi_z,
                  q |-> q_[i]])
          /\ IF ix + l.dir.X # l.stp.X
                THEN pos' = <<ix + l.dir.X, iy, iz>> /\ sn_pc' = "cell"
             ELSE IF iy + l.dir.Y # l.stp.Y
                THEN pos' = <<l.stt.X, iy + l.dir.Y, iz>> /\ sn_pc' = "cell"
             ELSE IF iz + l.dir.Z # l.stp.Z
                THEN pos' = <<l.stt.X, l.stt.Y, iz + l.dir.Z>> /\ sn_pc' = "cell"
             ELSE pos' = pos /\ sn_pc' = "angle_end"
    /\ UNCHANGED <<sn_err, sn_input, mesh_, n_inner_, gs_boundary_, coarse_attached,
                   group, inner, worker, iang, flux_, q_, xstr_, bc_in_,
                   bc_out_, sn_log>>
    /\ UNCHANGED snOther

\* The tail of the angle loop: store the downwind faces, update bc_in_.
SnAngleEnd ==
    /\ sn_pc = "angle_end"
    /\ LET out == [bc_out_ EXCEPT ![iang] = faces]
       IN /\ bc_out_' = out
          /\ bc_in_' = BcAfterAngle(bc_in_, group, iang, out)
    /\ iang' = iang + 1
    /\ sn_pc' = "angle"
    /\ UNCHANGED <<sn_err, sn_input, mesh_, n_inner_, gs_boundary_, coarse_attached,
                   coarse_data_, group, inner, worker, pos, faces, flux_,
                   flux_1g_, q_, xstr_, sn_log, visited>>
    /\ UNCHANGED snOther

\* The end of sweep_1g and of one pass of the inner loop.
SnInnerEnd ==
    /\ sn_pc = "angle"
    /\ iang = NAng
    /\ bc_in_' = BcAfterSweep(bc_in_, group, bc_out_)
    /\ coarse_data_' = IF worker = "Current"
                         THEN [coarse_data_ EXCEPT !.has_axial_data = TRUE,
                                                   !.has_radial_data = TRUE]
                         ELSE coarse_data_
    /\ inner' = inner + 1
    /\ sn_pc' = "inner"
    /\ UNCHANGED <<sn_err, sn_input, mesh_, n_inner_, gs_boundary_, coarse_attached,
                   group, worker, iang, pos, faces, flux_, flux_1g_, q_, xstr_,
                   bc_out_, sn_log, visited>>
    /\ UNCHANGED snOther

\* The end of sweep(group): the one-group flux goes back into flux_.
SnSweepEnd ==
    /\ sn_pc = "inner"
    /\ inner >= n_inner_
    /\ flux_' = [flux_ EXCEPT ![group] = flux_1g_]
    /\ sn_pc' = "done"
    /\ UNCHANGED <<sn_err, sn_input, mesh_, n_inner_, gs_boundary_, coarse_attached,
                   coarse_data_, group, inner, worker, iang, pos, faces,
                   flux_1g_, q_, xstr_, bc_in_, bc_out_, sn_log, visited>>
    /\ UNCHANGED snOther

SnNext ==
    \/ \E node \in SnNodes : SnConstruct(node)
    \/ SnSetCoarseData
    \/ \E g \in Groups : SnSweepBegin(g)
    \/ SnInnerBegin
    \/ SnAngleBegin
    \/ SnCell
    \/ SnAngleEnd
    \/ SnInnerEnd
    \/ SnSweepEnd

\* ------------------------------------------------------ FixedSourceSolver
\* A call made by step(): store_old_flux has no group.
Call(op, g) == [op |-> op, g |-> g]

\* The calls of the loop body of step() for group g, after the check of fs_.
GroupCallsSwapped(g) ==
    <<Call("in_scatter", g), Call("fission", g), Call("sweep", g)>>
GroupCalls(g) ==
    <<Call("fission", g), Call("in_scatter", g), Call("sweep", g)>>

\* The check at the head of the loop body.
FissionSourceUnchecked == FALSE
FissionSourceMissing == fs_ = "null"

FssInit ==
    /\ fss_pc = "idle"
    /\ fss_err = "none"
    /\ fs_ = "null"
    /\ ng_ \in 0 .. MaxFssGroups
    /\ ig = 0
    /\ fss_k = 1
    /\ fss_calls = <<>>
    /\ fss_steps = 0
    /\ swp_flux = [g \in 0 .. (MaxFssGroups - 1) |-> 0]
    /\ swp_flux_old = [g \in 0 .. (MaxFssGroups - 1) |-> 0]

FssIdle ==
    /\ fss_pc = "idle"
    /\ fss_err = "none"
    /\ fs_ = "null"
    /\ ng_ = 0
    /\ ig = 0
    /\ fss_k = 1
    /\ fss_calls = <<>>
    /\ fss_steps = 0
    /\ swp_flux = [g \in 0 .. (MaxFssGroups - 1) |-> 0]
    /\ swp_flux_old = [g \in 0 .. (MaxFssGroups - 1) |-> 0]

\* The eigenvalue solver hands its fission source to the fixed-source solver.
FssSetFissionSource ==
    /\ fss_pc = "idle"
    /\ fs_ = "null"
    /\ fs_' = "set"
    /\ UNCHANGED <<fss_pc, fss_err, ng_, ig, fss_k, fss_calls, fss_steps,
                   swp_flux, swp_flux_old>>
    /\ UNCHANGED fssOther

\* solve(): stand-alone source iteration is not implemented, Error() ends the
\* run with no call made.
FssSolve ==
    /\ fss_pc = "idle"
    /\ fss_pc' = "failed"
    /\ fss_err' = Error("Stand-alone source iteration is not implemented yet.").err
    /\ UNCHANGED <<fs_, ng_, ig, fss_k, fss_calls, fss_steps, swp_flux,
                   swp_flux_old>>
    /\ UNCHANGED fssOther

\* step(): store_old_flux and the start of the group loop.
FssStepBegin ==
    /\ fss_pc = "idle"
    /\ fss_steps < MaxSteps
    /\ fss_calls' = <<Call("store_old_flux", -1)>>
    /\ swp_flux_old' = swp_flux
    /\ ig' = 0
    /\ fss_pc' = "loop"
    /\ UNCHANGED <<fss_err, fs_, ng_, fss_k, fss_steps, swp_flux>>
    /\ UNCHANGED fssOther

\* The head of the loop body: Error() ends the run when fs_ is null.
FssGroupCheck ==
    /\ fss_pc = "loop"
    /\ ig < ng_
    /\ IF FissionSourceMissing
       THEN /\ fss_pc' = "failed"
            /\ fss_err' = Error("No fission source associated!").err
            /\ UNCHANGED fss_k
       ELSE /\ fss_pc' = "body"
            /\ fss_k' = 1
            /\ UNCHANGED fss_err
    /\ UNCHANGED <<fs_, ng_, ig, fss_calls, fss_steps, swp_flux, swp_flux_old>>
    /\ UNCHANGED fssOther

\* One call of the loop body; the last one ends the pass.
FssGroupCall ==
    /\ fss_pc = "body"
    /\ LET c == GroupCalls(ig)[fss_k]
       IN /\ fss_calls' = Append(fss_calls, c)
          /\ swp_flux' = IF c.op = "sweep"
                         THEN [swp_flux EXCEPT ![c.g] = @ + 1]
                         ELSE swp_flux
    /\ IF fss_k < Len(GroupCalls(ig))
       THEN fss_k' = fss_k + 1 /\ UNCHANGED <<ig, fss_pc>>
       ELSE fss_k' = 1 /\ ig' = ig + 1 /\ fss_pc' = "loop"
    /\ UNCHANGED <<fss_err, fs_, ng_, fss_steps, swp_flux_old>>
    /\ UNCHANGED fssOther

\* step() returns.
FssStepEnd ==
    /\ fss_pc = "loop"
    /\ ig >= ng_
    /\ fss_pc' = "idle"
    /\ fss_steps' = fss_steps + 1
    /\ UNCHANGED <<fss_err, fs_, ng_, ig, fss_k, fss_calls, swp_flux,
                   swp_flux_old>>
    /\ UNCHANGED fssOther

FssNext ==
    \/ FssSetFissionSource
    \/ FssSolve
    \/ FssStepBegin
    \/ FssGroupCheck
    \/ FssGroupCall
    \/ FssStepEnd

\* ------------------------------------------------------ PlaneSweeper_2D3D
\* Whether the MoC sweep is skipped in outer iteration i.
SkipMocInactiveOnly(o, i) == i < o.n_inactive_moc
SkipMoc(o, i) == i < o.n_inactive_moc \/ i % o.moc_modulo # 0

\* The calls of sweep(group), in order.
PlaneSweepCalls(o, i, g, has_axial) ==
    (IF o.do_tl /\ has_axial THEN <<Call("add_tl", g)>> ELSE <<>>)
    \o (IF SkipMoc(o, i) THEN <<>> ELSE <<Call("moc_sweep", g)>>)
    \o (IF o.do_snproject THEN <<Call("sn_project", g)>> ELSE <<>>)
    \o <<Call("sn_sweep", g), Call("residual", g)>>

\* set_coarse_data(cd): the pointers it sets.
SetCoarseData(cd) == [self |-> cd, moc |-> cd, sn |-> cd]

PlOptions == [do_tl : BOOLEAN, do_snproject : BOOLEAN,
              n_inactive_moc : 0 .. MaxInactive, moc_modulo : 1 .. MaxModulo]

PlInitWith(o) ==
    /\ pl_opts = o
    /\ i_outer_ = -1
    /\ pl_cd = [self |-> "null", moc |-> "null", sn |-> "null"]
    /\ pl_tl = "unallocated"
    /\ pl_has_axial = FALSE
    /\ pl_group = -1
    /\ pl_calls = <<>>
    /\ pl_corr = [g \in Groups |-> -1]

PlInit == \E o \in PlOptions : PlInitWith(o)

PlIdle == PlInitWith([do_tl |-> FALSE, do_snproject |-> FALSE,
                      n_inactive_moc |-> 0, moc_modulo |-> 1])

\* PlaneSweeper_2D3D::set_coarse_data
PlSetCoarseData ==
    /\ pl_cd.self = "null"
    /\ pl_cd' = SetCoarseData("cd")
    /\ UNCHANGED <<pl_opts, i_outer_, pl_tl, pl_has_axial, pl_group, pl_calls,
                   pl_corr>>
    /\ UNCHANGED plOther

\* PlaneSweeper_2D3D::sweep(group): the groups of an outer come in order, and
\* group 0 opens a new outer.
PlSweep(g) ==
    /\ g = (pl_group + 1) % NGroup
    /\ g = 0 => i_outer_ + 1 < MaxOuter
    /\ LET i == IF g = 0 THEN i_outer_ + 1 ELSE i_outer_
           calls == PlaneSweepCalls(pl_opts, i, g, pl_has_axial)
           moc == \E k \in 1 .. Len(calls) : calls[k].op = "moc_sweep"
       IN /\ i_outer_' = i
          /\ pl_calls' = calls
          /\ pl_corr' = IF moc THEN [pl_corr EXCEPT ![g] = i] ELSE pl_corr
    /\ pl_group' = g
    /\ pl_has_axial' = (pl_cd.sn = "cd" \/ pl_has_axial)
    /\ UNCHANGED <<pl_opts, pl_cd, pl_tl>>
    /\ UNCHANGED plOther

PlNext ==
    \/ PlSetCoarseData
    \/ \E g \in Groups : PlSweep(g)

\* ------------------------------------------- TransportSweeperFactory
SweeperTypes == {"moc", "sn", "2d3d", "", "cmfd"}

\* What the factory returns for a sweeper type, or "exception".
TransportSweeperFactory(type) ==
    IF type = "moc" THEN "MoCSweeper"
    ELSE IF type = "sn" THEN "SnSweeper"
    ELSE "exception"

\* ----------------------------------------------------------------- Core
\* The assemblies the core node may name: id -> [nz, hz, nx, ny].
Assemblies ==
    [id \in {1, 2, 3, 4, 5} |->
        CASE id = 1 -> [nz |-> 1, hz |-> <<1>>, nx |-> 1, ny |-> 1]
          [] id = 2 -> [nz |-> 1, hz |-> <<1>>, nx |-> 1, ny |-> 1]
          [] id = 3 -> [nz |-> 2, hz |-> <<1, 1>>, nx |-> 1, ny |-> 1]
          [] id = 4 -> [nz |-> 1, hz |-> <<2>>, nx |-> 1, ny |-> 1]
          [] id = 5 -> [nz |-> 2, hz |-> <<1, 2>>, nx |-> 1, ny |-> 1]]
\* The ids a core node may list: those of the assemblies, and 9, which no
\* assembly carries.
UnknownId == CHOOSE id \in {9} : id \notin DOMAIN Assemblies
AsyIds == DOMAIN Assemblies \cup {UnknownId}

RECURSIVE SeqsOfLen(_, _)
SeqsOfLen(S, n) ==
    IF n = 0 THEN {<<>>}
    ELSE {Append(t, x) : t \in SeqsOfLen(S, n - 1), x \in S}

\* Core nodes: nx and ny attributes (possibly missing) and the id list, which
\* may fall one id short of nx*ny.
CoreDims == {Absent} \cup {Attr(v) : v \in 0 .. MaxCoreN}
CoreInputs ==
    UNION {
        LET n == as_int(ax, -1) * as_int(ay, -1)
        IN IF as_int(ax, -1) < 1 \/ as_int(ay, -1) < 1
           THEN {[nx |-> ax, ny |-> ay, ids |-> <<UnknownId>>]}
           ELSE IF n > MaxCoreCells THEN {}
           ELSE {[nx |-> ax, ny |-> ay, ids |-> l] :
                    l \in SeqsOfLen(AsyIds, n) \cup SeqsOfLen(AsyIds, n - 1)}
        : ax \in CoreDims, ay \in CoreDims}

RECURSIVE SumSeq(_)
SumSeq(q) == IF q = <<>> THEN 0 ELSE Head(q) + SumSeq(Tail(q))

\* Core::at(x, y): row-major storage with lower-left origin.
CoreAt(c, x, y) == c.assemblies[y * c.nx + x]

\* The slot of assemblies_ the constructor writes for (ix, iy), and the
\* position of the id list it reads for it.
StoreSlot(nx, ny, ix, iy) == (ny - iy - 1) * nx + ix
ReadSlot(nx, ny, ix, iy) == (ny - iy - 1) * nx + ix

\* The first check of the stored assemblies: some assembly has another number
\* of planes than the first one.
PlanesIncompatible(stored) ==
    LET nz == Assemblies[stored[0]].nz
    IN \E k \in DOMAIN stored : Assemblies[stored[k]].nz # nz

\* The height check on the first plane only.
HeightsIncompatibleFirstPlane(stored) ==
    LET first == Assemblies[stored[0]]
    IN \E k \in DOMAIN stored : Assemblies[stored[k]].hz[1] # first.hz[1]

\* The second check: on some plane i < nz some assembly has another height
\* than the first one.
HeightsIncompatible(stored) ==
    LET first == Assemblies[stored[0]]
    IN \E i \in 1 .. first.nz : \E k \in DOMAIN stored :
          Assemblies[stored[k]].hz[i] # first.hz[i]

\* Core::Core(input, assemblies)
CoreCtor(in) ==
    LET nx == as_int(in.nx, -1)
        ny == as_int(in.ny, -1)
        Ended(e) == [status |-> e.status, err |-> e.err, nx |-> nx, ny |-> ny,
                     assemblies |-> <<>>, npinx |-> 0, npiny |-> 0]
    IN IF nx < 1 \/ ny < 1 THEN Ended(Error("Invalid core dimensions."))
       ELSE IF Len(in.ids) < nx * ny
       THEN Ended(Error("Trouble reading assembly IDs in core specification."))
       ELSE LET asy_vec == [k \in 0 .. (nx * ny - 1) |-> in.ids[k + 1]]
                stored == [s \in 0 .. (nx * ny - 1) |->
                             LET p == CHOOSE p \in (0 .. (nx - 1)) \X (0 .. (ny - 1)) :
                                         StoreSlot(nx, ny, p[1], p[2]) = s
                             IN asy_vec[ReadSlot(nx, ny, p[1], p[2])]]
                c == [status |-> "ok", err |-> "none", nx |-> nx, ny |-> ny,
                      assemblies |-> stored, npinx |-> 0, npiny |-> 0]
            IN IF \E k \in 0 .. (nx * ny - 1) : asy_vec[k] \notin DOMAIN Assemblies
               THEN Ended([status |-> "out_of_range", err |-> "map::at"])
               ELSE IF PlanesIncompatible(stored)
               THEN Ended(Error(
                      "Assemblies in the core have incompatible numbers of planes."))
               ELSE IF HeightsIncompatible(stored)
               THEN Ended(Error(
                      "Assemblies have incompatible plane heights in core."))
               ELSE [c EXCEPT
                       !.npinx = SumSeq([i \in 1 .. nx |->
                                    Assemblies[CoreAt(c, i - 1, 0)].nx]),
                       !.npiny = SumSeq([i \in 1 .. ny |->
                                    Assemblies[CoreAt(c, 0, i - 1)].ny])]

\* ------------------------------------------------------------- Assembly
\* pugi::xml_attribute::as_float(def), for attributes that hold a number.
as_float(attr, def) == IF attr.present THEN attr.val ELSE def

\* The lattices an assembly node may name: id -> [nx, ny, n_reg, n_xsreg].
Lattices ==
    [id \in {1, 2} |->
        CASE id = 1 -> [nx |-> 1, ny |-> 1, n_reg |-> 1, n_xsreg |-> 1]
          [] id = 2 -> [nx |-> 1, ny |-> 1, n_reg |-> 2, n_xsreg |-> 2]]
\* An id no lattice carries.
UnknownLattice == CHOOSE id \in {7} : id \notin DOMAIN Lattices

\* Assembly nodes: id, np and hz attributes (possibly missing), an <hz> child
\* (possibly missing) listing one height per plane, and the <lattices> list.
AssemblyInputs ==
    [id : {Absent, Attr(1)},
     np : {Absent} \cup {Attr(v) : v \in 0 .. MaxPlanes},
     hz : {Absent} \cup {Attr(v) : v \in -1 .. MaxHz},
     hz_child : {Absent} \cup {Attr([i \in 1 .. n |-> i]) : n \in 1 .. MaxPlanes},
     lattices : UNION {SeqsOfLen(DOMAIN Lattices \cup {UnknownLattice}, n) :
                          n \in 0 .. MaxPlanes}]

\* What the uninitialised lat_id can hold when the read fails: the id of a
\* lattice, or an id no lattice carries.
LatIdsLeft == DOMAIN Lattices \cup {UnknownLattice, 0}

\* The ids the lattice loop reads from the trimmed <lattices> text: the
\* stream of an empty text is not at eof, its one read fails and leaves lat_id
\* unwritten, holding the value left.
LatticeIdsRead(lattices, left) == IF lattices = <<>> THEN <<left>> ELSE lattices

\* scalar_hz: the hz attribute carries a positive height.
ScalarHz(attr) == as_float(attr, 0) > 0

\* Assembly::Assembly(input, lattices), lattices being the ids registered and
\* left the value an unwritten lat_id holds.
AssemblyCtor(in, lattices, left) ==
    LET id == as_int(in.id, 0)
        nz == as_int(in.np, 0)
        scalar_hz == ScalarHz(in.hz)
        hz == IF scalar_hz THEN [i \in 1 .. nz |-> as_float(in.hz, 0)] ELSE <<>>
        read == LatticeIdsRead(in.lattices, left)
        Ended(e) == [status |-> e.status, err |-> e.err, id |-> id, nz |-> nz,
                     hz |-> <<>>, lattices |-> <<>>]
    IN IF id = 0 THEN Ended(Error("Invalid assembly ID."))
       ELSE IF nz = 0
       THEN Ended(Error("Invalid number of planes (nz) when parsing assembly."))
       ELSE IF in.hz_child.present /\ scalar_hz
       THEN Ended(Error("Plane heights are over-specified for assembly."))
       ELSE IF \E k \in 1 .. Len(read) : read[k] \notin lattices
       THEN Ended(Error("Unrecognized lattice ID in assembly."))
       ELSE IF Len(read) # nz
       THEN Ended(Error("Incorrect number of lattices specified for assembly."))
       ELSE [status |-> "ok", err |-> "none", id |-> id, nz |-> nz, hz |-> hz,
             lattices |-> read]

NoAssembly == [status |-> "none", err |-> "none", id |-> 0, nz |-> 0,
               hz |-> <<>>, lattices |-> <<>>]

NoCore == [status |-> "none", err |-> "none", nx |-> 0, ny |-> 0,
           assemblies |-> <<>>, npinx |-> 0, npiny |-> 0]

BdInit ==
    /\ bd_op = "none"
    /\ fac_type = ""
    /\ fac_result = "none"
    /\ core_input = [nx |-> Absent, ny |-> Absent, ids |-> <<>>]
    /\ core_ = NoCore
    /\ asy_input = [id |-> Absent, np |-> Absent, hz |-> Absent,
                    hz_child |-> Absent, lattices |-> <<>>]
    /\ asy_ = NoAssembly

\* A call of TransportSweeperFactory(input, mesh).
BdFactory(type) ==
    /\ bd_op = "none"
    /\ bd_op' = "factory"
    /\ fac_type' = type
    /\ fac_result' = TransportSweeperFactory(type)
    /\ UNCHANGED <<core_input, core_, asy_input, asy_>>
    /\ UNCHANGED bdOther

\* A Core constructed from a core node.
BdCore(in) ==
    /\ bd_op = "none"
    /\ bd_op' = "core"
    /\ core_input' = in
    /\ core_' = CoreCtor(in)
    /\ UNCHANGED <<fac_type, fac_result, asy_input, asy_>>
    /\ UNCHANGED bdOther

\* An Assembly constructed from an assembly node.
BdAssembly(in) ==
    /\ bd_op = "none"
    /\ bd_op' = "assembly"
    /\ asy_input' = in
    /\ \E left \in LatIdsLeft : asy_' = AssemblyCtor(in, DOMAIN Lattices, left)
    /\ UNCHANGED <<fac_type, fac_result, core_input, core_>>
    /\ UNCHANGED bdOther

BdNext ==
    \/ \E type \in SweeperTypes : BdFactory(type)
    \/ \E in \in CoreInputs : BdCore(in)
    \/ \E in \in AssemblyInputs : BdAssembly(in)

\* ------------------------------------------------ MaterialLib, pins
\* The material library: library key -> cross sections per group. xssc[to][from]
\* is the scattering matrix; material 8 fissions in no group although the
\* library lists a fission spectrum for it, and its transport-corrected
\* self-scattering of the first group is negative.
MaterialLib ==
    [id \in {2, 5, 8} |->
        CASE id = 2 -> [xsab |-> <<2, 3>>, xsnf |-> <<1, 2>>, xsf |-> <<1, 1>>,
                        xskf |-> <<3, 5>>, xsch |-> <<1, 0>>,
                        xssc |-> <<<<2, 0>>, <<1, 3>>>>]
          [] id = 5 -> [xsab |-> <<1, 1>>, xsnf |-> <<0, 0>>, xsf |-> <<0, 0>>,
                        xskf |-> <<0, 0>>, xsch |-> <<0, 0>>,
                        xssc |-> <<<<3, 0>>, <<2, 4>>>>]
          [] id = 8 -> [xsab |-> <<4, 2>>, xsnf |-> <<0, 0>>, xsf |-> <<0, 0>>,
                        xskf |-> <<0, 0>>, xsch |-> <<1, 0>>,
                        xssc |-> <<<<-1, 0>>, <<0, 1>>>>]]

n_materials == Cardinality(DOMAIN MaterialLib)

RECURSIVE SortedKeys(_)
SortedKeys(S) ==
    IF S = {} THEN <<>>
    ELSE LET m == CHOOSE x \in S : \A y \in S : x <= y
         IN <<m>> \o SortedKeys(S \ {m})

\* The library keys in the order of the library's map, and the dense index
\* of a key.
matv == SortedKeys(DOMAIN MaterialLib)
mat_map(id) == (CHOOSE k \in 1 .. Len(matv) : matv[k] = id) - 1

\* MaterialLib::n_grp
xs_ng == Len(MaterialLib[matv[1]].xsab)
XsGroups == 0 .. (xs_ng - 1)

\* ScatteringMatrix::out(ig): total scattering out of group ig.
ScatOut(mat, g) == SumSeq([to \in 1 .. xs_ng |-> mat.xssc[to][g + 1]])
\* Material::xstr: absorption plus out-scattering.
MatXstr(mat, g) == mat.xsab[g + 1] + ScatOut(mat, g)
\* ScatteringMatrix::to(ig): the row of the densely stored source groups.
ScatRow(mat, g) ==
    LET row == mat.xssc[g + 1]
        nonzero == {k \in XsGroups : row[k + 1] # 0}
        lo == CHOOSE k \in nonzero : \A j \in nonzero : k <= j
        hi == CHOOSE k \in nonzero : \A j \in nonzero : k >= j
    IN [min_g |-> lo, max_g |-> hi, from |-> [j \in 1 .. (hi - lo + 1) |-> row[lo + j]]]

\* A value of floating-point arithmetic: the quotient n/d in lowest terms;
\* d = 0 is what a division by zero leaves (0/0 a NaN, x/0 an infinity).
RECURSIVE GCD(_, _)
GCD(a, b) == IF b = 0 THEN a ELSE GCD(b, a % b)
Rat(n, d) ==
    IF d = 0 THEN [n |-> IF n = 0 THEN 0 ELSE 1, d |-> 0]
    ELSE LET g == GCD(n, d) IN [n |-> n \div g, d |-> d \div g]
Finite(x) == x.d # 0

\* The XS region (1-based) of the pin-local flat source region l (0-based),
\* the XS regions holding n_fsrs[1], n_fsrs[2], ... regions in turn.
XsRegOf(n_fsrs, l) ==
    CHOOSE k \in 1 .. Len(n_fsrs) :
        /\ SumSeq(SubSeq(n_fsrs, 1, k - 1)) <= l
        /\ l < SumSeq(SubSeq(n_fsrs, 1, k))

\* A pin: the material of each XS region, the number of flat source regions
\* of each XS region (PinMesh::n_fsrs), the XS region of each flat source
\* region, their volumes and the pin's volume.
MakePin(mat_ids, n_fsrs) ==
    [mat_ids |-> mat_ids, n_fsrs |-> n_fsrs,
     xsreg |-> [l \in 1 .. SumSeq(n_fsrs) |-> XsRegOf(n_fsrs, l - 1)],
     vols |-> [l \in 1 .. SumSeq(n_fsrs) |-> l],
     vol |-> SumSeq([l \in 1 .. SumSeq(n_fsrs) |-> l])]
XsPins ==
    UNION {{MakePin(m, nf) : m \in SeqsOfLen(DOMAIN MaterialLib, k),
                             nf \in {q \in SeqsOfLen(1 .. MaxFsrPerXs, k) :
                                        SumSeq(q) <= MaxXsRegions}}
           : k \in 1 .. MaxXsPerPin}
\* PinMesh::n_reg
PinNReg(pin) == Len(pin.vols)
\* The meshes of at most npins pins and at most budget flat source regions.
RECURSIVE MeshesWithin(_, _)
MeshesWithin(budget, npins) ==
    IF npins = 0 THEN {<<>>}
    ELSE {<<>>} \cup
         UNION {{<<p>> \o rest : rest \in MeshesWithin(budget - PinNReg(p), npins - 1)}
                : p \in {q \in XsPins : PinNReg(q) <= budget}}
XsMeshes == MeshesWithin(MaxXsRegions, MaxPins) \ {<<>>}
\* CoreMesh::n_reg
MeshNReg(pins) == SumSeq([k \in 1 .. Len(pins) |-> PinNReg(pins[k])])

\* The material the region loops hold while at pin-local region l.
MatOf(pin, l) == MaterialLib[pin.mat_ids[pin.xsreg[l + 1]]]
\* A sum accumulated over the region loops of a pin.
PinRegs(pin) == 0 .. (PinNReg(pin) - 1)
PinSum(pin, f) == SumSeq([l \in 1 .. PinNReg(pin) |-> f[l - 1]])

\* first_reg: the flat source regions of the pins before pin ip (1-based).
FirstRegion(pins, ip) == MeshNReg(SubSeq(pins, 1, ip - 1))

\* ---------------------------------------------------------------- XSMesh
\* The running region counter with a fresh start at each pin.
FineRegionIndexPerPin(pins, ip, l) == l

\* ireg at the push_back for pin-local region l of pin ip: a counter running
\* over all pins.
FineRegionIndex(pins, ip, l) == FirstRegion(pins, ip) + l

\* fsrs[mat_index]: the regions pushed for a material, in push order.
RECURSIVE FineFsrs(_, _, _, _)
FineFsrs(pins, imat, ip, l) ==
    IF ip > Len(pins) THEN <<>>
    ELSE IF l >= PinNReg(pins[ip]) THEN FineFsrs(pins, imat, ip + 1, 0)
    ELSE (IF mat_map(pins[ip].mat_ids[pins[ip].xsreg[l + 1]]) = imat
          THEN <<FineRegionIndex(pins, ip, l)>> ELSE <<>>)
         \o FineFsrs(pins, imat, ip, l + 1)

\* XSMesh::XSMesh(mesh): one region per material of the library.
XSMeshCtor(pins) ==
    [imat \in 0 .. (n_materials - 1) |->
        LET mati == MaterialLib[matv[imat + 1]]
        IN [fsrs |-> FineFsrs(pins, imat, 1, 0),
            xstr |-> [g \in XsGroups |-> Rat(mati.xsab[g + 1] + ScatOut(mati, g), 1)],
            xsnf |-> [g \in XsGroups |-> Rat(mati.xsnf[g + 1], 1)],
            xsch |-> [g \in XsGroups |-> Rat(mati.xsch[g + 1], 1)],
            xskf |-> [g \in XsGroups |-> Rat(mati.xsf[g + 1], 1)],
            xssc |-> [g \in XsGroups |-> [gg \in XsGroups |->
                        Rat(mati.xssc[g + 1][gg + 1], 1)]]]]

\* ------------------------------------------------------ XSMeshHomogenized
\* scat_row.from[igg-gmin] inside gmin..gmax, nothing outside.
ScatFrom(mat, g, gg) ==
    LET row == ScatRow(mat, g)
    IN IF gg >= row.min_g /\ gg <= row.max_g THEN row.from[gg - row.min_g + 1]
       ELSE 0

\* A volume-weighted sum divided by the number of regions of the pin.
VolQuotientByRegions(x, pin) == Rat(x, PinNReg(pin))

\* x /= pin.vol()
VolQuotient(x, pin) == Rat(x, pin.vol)

\* XSMeshHomogenized::homogenize_region(i, pin)
homogenize_region(i, pin) ==
    LET fsrc(l) == SumSeq(MatOf(pin, l).xsnf)
        vols(l) == pin.vols[l + 1]
        fvol == PinSum(pin, [l \in PinRegs(pin) |-> vols(l) * fsrc(l)])
    IN [fsrs |-> <<i>>,
        xstr |-> [g \in XsGroups |->
            VolQuotient(PinSum(pin, [l \in PinRegs(pin) |->
                    vols(l) * MatXstr(MatOf(pin, l), g)]), pin)],
        xsnf |-> [g \in XsGroups |->
            VolQuotient(PinSum(pin, [l \in PinRegs(pin) |->
                    vols(l) * MatOf(pin, l).xsnf[g + 1]]), pin)],
        xskf |-> [g \in XsGroups |->
            VolQuotient(PinSum(pin, [l \in PinRegs(pin) |->
                    vols(l) * MatOf(pin, l).xskf[g + 1]]), pin)],
        xsch |-> [g \in XsGroups |->
            LET x == PinSum(pin, [l \in PinRegs(pin) |->
                    vols(l) * fsrc(l) * MatOf(pin, l).xsch[g + 1]])
            IN IF fvol > 0 THEN Rat(x, fvol) ELSE Rat(x, 1)],
        xssc |-> [g \in XsGroups |-> [gg \in XsGroups |->
            VolQuotient(PinSum(pin, [l \in PinRegs(pin) |->
                    ScatFrom(MatOf(pin, l), g, gg) * vols(l)]),
                        pin)]]]

\* XSMeshHomogenized::XSMeshHomogenized(mesh); the lexicographic index of the
\* pin at iteration position ipin is taken to be ipin.
XSMeshHomogenizedCtor(pins) ==
    [ipin \in 0 .. (Len(pins) - 1) |-> homogenize_region(ipin, pins[ipin + 1])]

\* The fs vector of homogenize_region_flux: every XS region of the pin starts
\* over at the pin's first region (ireg = first_reg, ireg_local = 0).
FissionSource(pin, first_reg, flux, n_reg) ==
    [l \in 0 .. (PinNReg(pin) - 1) |->
        SumSeq([k \in 1 .. Len(pin.mat_ids) |->
            IF l < pin.n_fsrs[k]
            THEN SumSeq([g \in 1 .. xs_ng |->
                    MaterialLib[pin.mat_ids[k]].xsnf[g]
                      * flux[first_reg + l + (g - 1) * n_reg] * pin.vols[l + 1]])
            ELSE 0])]

\* The division of xsch with no test of the divisor.
ChiQuotientUnguarded(x, fs_sum) == Rat(x, fs_sum)

\* if(fs_sum > 0.0) xsch[ig] /= fs_sum
ChiQuotient(x, fs_sum) == IF fs_sum > 0 THEN Rat(x, fs_sum) ELSE Rat(x, 1)

\* XSMeshHomogenized::homogenize_region_flux(i, first_reg, pin, flux)
homogenize_region_flux(i, first_reg, pin, flux, n_reg) ==
    LET fs == FissionSource(pin, first_reg, flux, n_reg)
        fs_sum == PinSum(pin, [l \in PinRegs(pin) |-> fs[l]])
        v(l) == pin.vols[l + 1]
        phi(l, g) == flux[first_reg + l + g * n_reg]
        \* fluxvolsum of the pass for group g, which is also its scatsum[g]
        fluxvolsum == [g \in XsGroups |-> PinSum(pin, [l \in PinRegs(pin) |-> v(l) * phi(l, g)])]
    IN [fsrs |-> <<i>>,
        xstr |-> [g \in XsGroups |->
            Rat(PinSum(pin, [l \in PinRegs(pin) |-> v(l) * phi(l, g) * MatXstr(MatOf(pin, l), g)]),
                fluxvolsum[g])],
        xsnf |-> [g \in XsGroups |->
            Rat(PinSum(pin, [l \in PinRegs(pin) |-> v(l) * phi(l, g) * MatOf(pin, l).xsnf[g + 1]]),
                fluxvolsum[g])],
        xskf |-> [g \in XsGroups |->
            Rat(PinSum(pin, [l \in PinRegs(pin) |-> v(l) * phi(l, g) * MatOf(pin, l).xskf[g + 1]]),
                fluxvolsum[g])],
        xsch |-> [g \in XsGroups |->
            ChiQuotient(PinSum(pin, [l \in PinRegs(pin) |-> fs[l] * MatOf(pin, l).xsch[g + 1]]),
                        fs_sum)],
        xssc |-> [g \in XsGroups |-> [gg \in XsGroups |->
            LET x == PinSum(pin, [l \in PinRegs(pin) |->
                        ScatFrom(MatOf(pin, l), g, gg) * v(l) * phi(l, gg)])
            IN IF x > 0 THEN Rat(x, fluxvolsum[gg]) ELSE Rat(x, 1)]]]

\* XSMeshHomogenized::update(flux): every region is assigned anew.
update(regions, pins, flux) ==
    [ipin \in DOMAIN regions |->
        homogenize_region_flux(ipin, FirstRegion(pins, ipin + 1), pins[ipin + 1],
                               flux, MeshNReg(pins))]

\* The scalar fluxes handed to update(), flux[ireg + ig*n_reg]: one level
\* everywhere, but for one group or the first region of the mesh left dark.
XsFluxes(n_reg) ==
    {[k \in 0 .. (n_reg * xs_ng - 1) |->
         IF (k % n_reg) \in dark[2] \/ (k \div n_reg) \in dark[1] THEN 0 ELSE lvl]
     : lvl \in 0 .. MaxFlux,
       dark \in {<<{}, {}>>, <<{}, {0}>>} \cup {<<{g}, {}>> : g \in XsGroups}}

XsInitWith(pins) ==
    /\ xs_op = "none"
    /\ xs_mesh = pins
    /\ fine_regions_ = <<>>
    /\ regions_ = <<>>
    /\ xs_flux = <<>>
    /\ xs_fs = <<>>
    /\ xs_repeat = FALSE
    /\ xs_unchanged = FALSE

XsInit == \E pins \in XsMeshes : XsInitWith(pins)
XsIdle == XsInitWith(<<>>)

\* XSMesh constructed over the mesh.
XsBuildFine ==
    /\ xs_op = "none"
    /\ xs_op' = "fine"
    /\ fine_regions_' = XSMeshCtor(xs_mesh)
    /\ UNCHANGED <<xs_mesh, regions_, xs_flux, xs_fs, xs_repeat, xs_unchanged>>
    /\ UNCHANGED xsOther

\* XSMeshHomogenized constructed over the mesh.
XsHomogenize ==
    /\ xs_op = "none"
    /\ xs_op' = "hom"
    /\ regions_' = XSMeshHomogenizedCtor(xs_mesh)
    /\ UNCHANGED <<xs_mesh, fine_regions_, xs_flux, xs_fs, xs_repeat, xs_unchanged>>
    /\ UNCHANGED xsOther

\* A call of XSMeshHomogenized::update(flux).
XsUpdate(flux) ==
    /\ xs_op \in {"hom", "update"}
    /\ xs_op' = "update"
    /\ regions_' = update(regions_, xs_mesh, flux)
    /\ xs_flux' = flux
    /\ xs_fs' = [ipin \in DOMAIN regions_ |->
                    FissionSource(xs_mesh[ipin + 1], FirstRegion(xs_mesh, ipin + 1),
                                  flux, MeshNReg(xs_mesh))]
    /\ xs_repeat' = (xs_op = "update" /\ flux = xs_flux)
    /\ xs_unchanged' = (regions_' = regions_)
    /\ UNCHANGED <<xs_mesh, fine_regions_>>
    /\ UNCHANGED xsOther

XsNext ==
    \/ XsBuildFine
    \/ XsHomogenize
    \/ \E flux \in XsFluxes(MeshNReg(xs_mesh)) : XsUpdate(flux)


\* ------------------------------------------- MonteCarloEigenvalueSolver
\* Fission sites a particle can be born at.
McSites == 0 .. (MaxSites - 1)

\* Sequences of length at most n over the set S.
SeqsUpTo(S, n) == UNION {SeqsOfLen(S, k) : k \in 0 .. n}

\* The elements of a sequence.
Range(q) == {q[k] : k \in DOMAIN q}

\* Tally: the weight added and the scores made, in order.
NoTally == [weight |-> 0, scores |-> <<>>]
score(t, x) == [t EXCEPT !.scores = Append(@, x)]
add_weight(t) == [t EXCEPT !.weight = @ + 1]

\* The fission bank the pusher holds after simulate(): new sites, whose ids
\* are not those of the bank order.
PusherBank(sites) ==
    [k \in DOMAIN sites |-> [site |-> sites[k], id |-> Len(sites) - k]]

\* The fission banks simulate() can leave for a source bank of n particles.
PusherBanks(n) ==
    {PusherBank(sites) :
        sites \in IF n = 0 THEN {<<>>} ELSE SeqsUpTo(McSites, n + 1) \ {<<>>}}

\* std::stable_sort of the bank: particles in the order of their sites, those
\* of one site in the order they had.
RECURSIVE StableSort(_)
StableSort(bank) ==
    IF bank = <<>> THEN <<>>
    ELSE LET m == CHOOSE k \in DOMAIN bank :
                     /\ \A j \in DOMAIN bank : bank[k].site <= bank[j].site
                     /\ \A j \in 1 .. (k - 1) : bank[j].site # bank[k].site
             rest == [j \in 1 .. (Len(bank) - 1) |->
                         IF j < m THEN bank[j] ELSE bank[j + 1]]
         IN <<bank[m]>> \o StableSort(rest)

\* FissionBank::resize(n, rng): the banks of n particles drawn from the bank.
Resize(bank, n) == SeqsOfLen(Range(bank), n)

\* The loop that gives particle k of the bank the id k.
ReindexKeep(bank) == bank
Reindex(bank) == [k \in DOMAIN bank |-> [bank[k] EXCEPT !.id = k - 1]]

\* Number of active steps asked of the second loop of solve().
NActiveNoExtra(nc, ni) == nc - ni
NActive(nc, ni) == nc - ni + 1

\* The solver after construction; negative counts are rejected there.
McInitWith(nc, ni, ppc, active) ==
    /\ mc_pc = "ready"
    /\ mc_i = 0
    /\ n_cycles_ = nc
    /\ n_inactive_cycles_ = ni
    /\ particles_per_cycle_ = ppc
    /\ cycle_ = 0
    /\ active_cycle_ = active
    /\ k_history_ = <<>>
    /\ h_history_ = <<>>
    /\ k_tally_ = NoTally
    /\ flux_tallies_ = [g \in Groups |-> NoTally]
    /\ k_mean_history_ = <<>>
    /\ k_stdev_history_ = <<>>
    /\ source_bank_ = [k \in 1 .. ppc |-> [site |-> 0, id |-> k - 1]]
    /\ mc_steps = <<>>

\* The constructor does not write active_cycle_: it holds either value.
McInit ==
    \E nc \in 0 .. MaxCycles, ni \in 0 .. MaxCycles, ppc \in 0 .. MaxParticles,
       active \in BOOLEAN :
        McInitWith(nc, ni, ppc, active)

McIdle == McInitWith(0, 0, 0, FALSE)

\* solve() up to the first loop.
McSolveBegin ==
    /\ mc_pc = "ready"
    /\ cycle_' = -n_inactive_cycles_
    /\ active_cycle_' = FALSE
    /\ mc_i' = 0
    /\ mc_pc' = "inactive"
    /\ UNCHANGED <<n_cycles_, n_inactive_cycles_, particles_per_cycle_,
                   k_history_, h_history_, k_tally_, flux_tallies_,
                   k_mean_history_, k_stdev_history_, source_bank_, mc_steps>>
    /\ UNCHANGED mcOther

\* step(), with the fission bank the pusher filled.
step(fission_bank) ==
    /\ cycle_' = cycle_ + 1
    /\ k_history_' = Append(k_history_, cycle_ + 1)
    /\ h_history_' = Append(h_history_, cycle_ + 1)
    /\ IF active_cycle_
       THEN /\ k_tally_' = add_weight(score(k_tally_, cycle_ + 1))
            /\ flux_tallies_' =
                  [g \in Groups |-> score(add_weight(flux_tallies_[g]), cycle_ + 1)]
            /\ k_mean_history_' = Append(k_mean_history_, cycle_ + 1)
            /\ k_stdev_history_' = Append(k_stdev_history_, cycle_ + 1)
       ELSE UNCHANGED <<k_tally_, flux_tallies_, k_mean_history_, k_stdev_history_>>
    /\ \E resized \in Resize(StableSort(fission_bank), particles_per_cycle_) :
          source_bank_' = Reindex(resized)
    /\ mc_steps' = Append(mc_steps, active_cycle_)

\* step() called on the solver as constructed, outside solve().
McStepAlone ==
    /\ mc_pc = "ready"
    /\ \E fission_bank \in PusherBanks(Len(source_bank_)) : step(fission_bank)
    /\ mc_pc' = "stepped"
    /\ UNCHANGED <<mc_i, n_cycles_, n_inactive_cycles_, particles_per_cycle_,
                   active_cycle_>>
    /\ UNCHANGED mcOther

\* One pass of the loop of inactive cycles.
McInactiveStep ==
    /\ mc_pc = "inactive"
    /\ mc_i < n_inactive_cycles_
    /\ \E fission_bank \in PusherBanks(Len(source_bank_)) : step(fission_bank)
    /\ mc_i' = mc_i + 1
    /\ UNCHANGED <<mc_pc, n_cycles_, n_inactive_cycles_, particles_per_cycle_,
                   active_cycle_>>
    /\ UNCHANGED mcOther

\* Between the loops: the pusher's tallies are reset, the cycles become active.
McStartActive ==
    /\ mc_pc = "inactive"
    /\ ~(mc_i < n_inactive_cycles_)
    /\ active_cycle_' = TRUE
    /\ mc_i' = 0
    /\ mc_pc' = "active"
    /\ UNCHANGED <<n_cycles_, n_inactive_cycles_, particles_per_cycle_, cycle_,
                   k_history_, h_history_, k_tally_, flux_tallies_,
                   k_mean_history_, k_stdev_history_, source_bank_, mc_steps>>
    /\ UNCHANGED mcOther

\* One pass of the loop of active cycles.
McActiveStep ==
    /\ mc_pc = "active"
    /\ mc_i < NActive(n_cycles_, n_inactive_cycles_)
    /\ \E fission_bank \in PusherBanks(Len(source_bank_)) : step(fission_bank)
    /\ mc_i' = mc_i + 1
    /\ UNCHANGED <<mc_pc, n_cycles_, n_inactive_cycles_, particles_per_cycle_,
                   active_cycle_>>
    /\ UNCHANGED mcOther

\* solve() returns.
McSolveEnd ==
    /\ mc_pc = "active"
    /\ ~(mc_i < NActive(n_cycles_, n_inactive_cycles_))
    /\ mc_pc' = "done"
    /\ UNCHANGED <<mc_i, n_cycles_, n_inactive_cycles_, particles_per_cycle_,
                   cycle_, active_cycle_, k_history_, h_history_, k_tally_,
                   flux_tallies_, k_mean_history_, k_stdev_history_,
                   source_bank_, mc_steps>>
    /\ UNCHANGED mcOther

McNext ==
    \/ McSolveBegin
    \/ McStepAlone
    \/ McInactiveStep
    \/ McStartActive
    \/ McActiveStep
    \/ McSolveEnd


\* ------------------------------------------------- CoreMesh construction
\* pin_meshes_: id -> the pin mesh, with n_xsreg regions.
PinMeshes == [id \in 1 .. MaxXsPerPin |-> [n_xsreg |-> id]]

\* The id and mesh attributes a pin node may carry: missing, the id of a pin
\* mesh, or an id no pin mesh carries.
PinAttrs == {Absent} \cup {Attr(v) : v \in 1 .. (MaxXsPerPin + 1)}

\* Pin nodes: [id, mesh, text], text being the material ids listed.
PinNodes ==
    [id : PinAttrs, mesh : PinAttrs, text : SeqsUpTo(DOMAIN MaterialLib, MaxXsPerPin)]

\* The loop reading the material ids off the trimmed text: an empty text ends
\* with one failed read, which leaves the -1 the id was set to.
ReadMats(text) ==
    IF text = <<>> THEN [mats |-> <<-1>>, fail |-> TRUE]
    ELSE [mats |-> text, fail |-> FALSE]

\* What dereferencing the null pointer that pin_meshes_[pin_id] holds for an id
\* without a pin mesh can end in: a crash, or either way past the size test.
NullPinMesh(made) ==
    {[status |-> "SIGSEGV", err |-> "none", pin |-> <<>>],
     [status |-> "error",
      err |-> "Wrong number of materials specified in pin definition",
      pin |-> <<>>],
     made}

\* The body of the pin loop for one pin node: the ways it can end.
ParsePin(pin) ==
    LET pin_id == as_int(pin.id, -1)
        mesh_id == as_int(pin.mesh, -1)
        read == ReadMats(pin.text)
        Ended(msg) == [status |-> "error", err |-> msg, pin |-> <<>>]
        made == [status |-> "ok", err |-> "none",
                 pin |-> [id |-> pin_id, mesh |-> mesh_id, mats |-> read.mats]]
    IN IF pin_id = -1 THEN {Ended("Failed to read pin ID.")}
       ELSE IF mesh_id = -1 THEN {Ended("Failed to read pin mesh ID.")}
       ELSE IF mesh_id \notin DOMAIN PinMeshes THEN {Ended("Invalid pin mesh ID.")}
       ELSE IF read.fail
       THEN {Ended("Trouble reading material IDs in pin definition.")}
       ELSE IF pin_id \notin DOMAIN PinMeshes THEN NullPinMesh(made)
       ELSE IF Len(read.mats) # PinMeshes[pin_id].n_xsreg
       THEN {Ended("Wrong number of materials specified in pin definition")}
       ELSE {made}

\* No node.
NullNode == [at |-> "null", k |-> 0]

\* The children of the input node: nl lattice nodes, then na assembly nodes,
\* numbered by id.
Children(nl, na) ==
    [k \in 1 .. (nl + na) |->
        IF k <= nl THEN [name |-> "lattice", id |-> k]
        ELSE [name |-> "assembly", id |-> k - nl]]

\* The nodes that may follow the input node under its parent.
SiblingLists ==
    {<<>>, <<[name |-> "lattice", id |-> MaxChildren + 1]>>,
     <<[name |-> "assembly", id |-> MaxChildren + 1]>>}

\* The input nodes of CoreMesh.
CmInputs ==
    {[pin |-> pin, children |-> Children(nl, na), siblings |-> sib] :
        pin \in PinNodes, nl \in 0 .. MaxChildren, na \in 0 .. MaxChildren,
        sib \in SiblingLists}

\* The first node of a list with the given name at or after position from.
FirstNamed(nodes, at, name, from) ==
    LET ks == {k \in DOMAIN nodes : k >= from /\ nodes[k].name = name}
    IN IF ks = {} THEN NullNode
       ELSE [at |-> at, k |-> CHOOSE k \in ks : \A j \in ks : k <= j]

\* input.child(name)
child(in, name) == FirstNamed(in.children, "child", name, 1)

\* input.next_sibling(name): the next node of that name after the input node.
next_sibling(in, name) == FirstNamed(in.siblings, "sibling", name, 1)

\* The node a reference stands for.
NodeAt(in, ref) ==
    IF ref.at = "child" THEN in.children[ref.k] ELSE in.siblings[ref.k]

\* std::map::emplace: no effect when the key is taken.
emplace(m, key, v) == IF key \in DOMAIN m THEN m ELSE m @@ (key :> v)

CmInitWith(in) ==
    /\ cm_pc = "pin"
    /\ cm_input = in
    /\ pins_ = [status |-> "none", err |-> "none", pin |-> <<>>]
    /\ lat = NullNode
    /\ asy = NullNode
    /\ lattices_ = <<>>
    /\ assemblies_ = <<>>
    /\ cm_visits = <<>>
    /\ cm_err = "none"

CmInit == \E in \in CmInputs : CmInitWith(in)

CmIdle ==
    CmInitWith([pin |-> [id |-> Absent, mesh |-> Absent, text |-> <<>>],
                children |-> <<>>, siblings |-> <<>>])

\* The pin loop, for the pin node of the input.
CmPin ==
    /\ cm_pc = "pin"
    /\ \E result \in ParsePin(cm_input.pin) :
          /\ pins_' = result
          /\ cm_pc' = IF result.status = "ok" THEN "lattice_first" ELSE "ended"
    /\ UNCHANGED <<cm_input, lat, asy, lattices_, assemblies_, cm_visits, cm_err>>
    /\ UNCHANGED cmOther

\* Lattice loop: initialisation.
CmLatticeFirst ==
    /\ cm_pc = "lattice_first"
    /\ lat' = child(cm_input, "lattice")
    /\ cm_pc' = "lattice"
    /\ UNCHANGED <<cm_input, pins_, asy, lattices_, assemblies_, cm_visits, cm_err>>
    /\ UNCHANGED cmOther

\* Lattice loop: body and advance.
CmLatticeVisit ==
    /\ cm_pc = "lattice"
    /\ lat # NullNode
    /\ Len(cm_visits) < MaxVisits
    /\ lattices_' = emplace(lattices_, NodeAt(cm_input, lat).id, lat)
    /\ cm_visits' = Append(cm_visits, lat)
    /\ lat' = next_sibling(cm_input, "lattice")
    /\ UNCHANGED <<cm_pc, cm_input, pins_, asy, assemblies_, cm_err>>
    /\ UNCHANGED cmOther

\* Lattice loop: exit.
CmLatticeEnd ==
    /\ cm_pc = "lattice"
    /\ lat = NullNode
    /\ cm_pc' = "assembly_first"
    /\ UNCHANGED <<cm_input, pins_, lat, asy, lattices_, assemblies_, cm_visits,
                   cm_err>>
    /\ UNCHANGED cmOther

\* Assembly loop: initialisation.
CmAssemblyFirst ==
    /\ cm_pc = "assembly_first"
    /\ asy' = child(cm_input, "assembly")
    /\ cm_pc' = "assembly"
    /\ UNCHANGED <<cm_input, pins_, lat, lattices_, assemblies_, cm_visits, cm_err>>
    /\ UNCHANGED cmOther

\* Assembly loop: body and advance. The Assembly is constructed from the node,
\* of one plane holding the first lattice, with the lattices registered; an
\* Error() in its constructor ends the run.
CmAssemblyVisit ==
    /\ cm_pc = "assembly"
    /\ asy # NullNode
    /\ Len(cm_visits) < MaxVisits
    /\ cm_visits' = Append(cm_visits, asy)
    /\ LET node == [id |-> Attr(NodeAt(cm_input, asy).id), np |-> Attr(1),
                    hz |-> Attr(1), hz_child |-> Absent, lattices |-> <<1>>]
           asy_p == AssemblyCtor(node, DOMAIN lattices_, 0)
       IN IF asy_p.status = "ok"
          THEN /\ assemblies_' = emplace(assemblies_, asy_p.id, asy)
               /\ asy' = next_sibling(cm_input, "assembly")
               /\ UNCHANGED <<cm_pc, cm_err>>
          ELSE /\ cm_pc' = "ended"
               /\ cm_err' = asy_p.err
               /\ UNCHANGED <<assemblies_, asy>>
    /\ UNCHANGED <<cm_input, pins_, lat, lattices_>>
    /\ UNCHANGED cmOther

\* Assembly loop: exit, on to the core.
CmAssemblyEnd ==
    /\ cm_pc = "assembly"
    /\ asy = NullNode
    /\ cm_pc' = "core"
    /\ UNCHANGED <<cm_input, pins_, lat, asy, lattices_, assemblies_, cm_visits,
                   cm_err>>
    /\ UNCHANGED cmOther

CmNext ==
    \/ CmPin
    \/ CmLatticeFirst
    \/ CmLatticeVisit
    \/ CmLatticeEnd
    \/ CmAssemblyFirst
    \/ CmAssemblyVisit
    \/ CmAssemblyEnd

\* ------------------------------------------------------------------ main
\* How the process ends when Error() is called.
ErrorExit == "1"

\* What calling output through the null solver pointer can end in: a crash,
\* or the handler running on to std::exit(EXIT_FAILURE).
NullSolverExits == {"SIGSEGV", "1"}

MnInitWith(n) ==
    /\ mn_pc = "start"
    /\ argc = n
    /\ solver = "null"
    /\ mn_core = NoCore
    /\ out_h5 = "absent"
    /\ mn_exit = "running"
    /\ mn_caught = "none"
    /\ mn_sigint = FALSE
    /\ mn_null_output = FALSE

MnInit == \E n \in {1, 2} : MnInitWith(n)

MnIdle == MnInitWith(1)

\* main up to the try block: the argument test, the handler installed.
MnStart ==
    /\ mn_pc = "start"
    /\ IF argc < 2
       THEN mn_pc' = "ended" /\ mn_exit' = ErrorExit
       ELSE mn_pc' = "parse" /\ mn_exit' = mn_exit
    /\ UNCHANGED <<argc, solver, mn_core, out_h5, mn_caught, mn_sigint, mn_null_output>>
    /\ UNCHANGED mnOther

\* InputProc and the CoreMesh: the core node is handed to Core::Core. An
\* Error() ends the run; an exception that is no mocc Exception passes main's
\* handler and terminates the process.
MnParse(in) ==
    /\ mn_pc = "parse"
    /\ mn_core' = CoreCtor(in)
    /\ CASE mn_core'.status = "ok" -> mn_pc' = "mesh" /\ mn_exit' = mn_exit
         [] mn_core'.status = "error" -> mn_pc' = "ended" /\ mn_exit' = ErrorExit
         [] mn_core'.status = "out_of_range" ->
               mn_pc' = "ended" /\ mn_exit' = "SIGABRT"
    /\ UNCHANGED <<argc, solver, out_h5, mn_caught, mn_sigint, mn_null_output>>
    /\ UNCHANGED mnOther

\* solver = inProc.solver()
MnSolver ==
    /\ mn_pc = "mesh"
    /\ solver' = "solver"
    /\ mn_pc' = "solve"
    /\ UNCHANGED <<argc, mn_core, out_h5, mn_exit, mn_caught, mn_sigint,
                   mn_null_output>>
    /\ UNCHANGED mnOther

\* solver->solve() returns, and main after it.
MnSolved ==
    /\ mn_pc = "solve"
    /\ mn_pc' = "ended"
    /\ mn_exit' = "0"
    /\ UNCHANGED <<argc, solver, mn_core, out_h5, mn_caught, mn_sigint,
                   mn_null_output>>
    /\ UNCHANGED mnOther

\* solver->solve() throws a mocc Exception: main's handler returns 1.
MnSolveThrows ==
    /\ mn_pc = "solve"
    /\ mn_pc' = "ended"
    /\ mn_caught' = "Exception"
    /\ mn_exit' = "1"
    /\ UNCHANGED <<argc, solver, mn_core, out_h5, mn_sigint, mn_null_output>>
    /\ UNCHANGED mnOther

\* SIGINT with the handler installed: int_handler, generate_output, exit.
int_handler(how) ==
    /\ mn_pc \in {"parse", "mesh", "solve"}
    /\ mn_sigint' = TRUE
    /\ mn_pc' = "ended"
    /\ IF solver = "null"
       THEN /\ out_h5' = "empty"
            /\ mn_null_output' = TRUE
            /\ mn_exit' = how
       ELSE /\ out_h5' = "written"
            /\ mn_null_output' = mn_null_output
            /\ mn_exit' = "1"
    /\ UNCHANGED <<argc, solver, mn_core, mn_caught>>
    /\ UNCHANGED mnOther

MnNext ==
    \/ MnStart
    \/ \E in \in CoreInputs : MnParse(in)
    \/ MnSolver
    \/ MnSolved
    \/ MnSolveThrows
    \/ \E how \in NullSolverExits : int_handler(how)

\* ---------------------------------------------------------- specifications
InitSn ==
    SnInit /\ FssIdle /\ PlIdle /\ BdInit /\ XsIdle /\ McIdle /\ CmIdle /\ MnIdle
SpecSn == InitSn /\ [][SnNext]_vars

InitFss ==
    SnIdle /\ FssInit /\ PlIdle /\ BdInit /\ XsIdle /\ McIdle /\ CmIdle /\ MnIdle
SpecFss == InitFss /\ [][FssNext]_vars

InitPlane ==
    SnIdle /\ FssIdle /\ PlInit /\ BdInit /\ XsIdle /\ McIdle /\ CmIdle /\ MnIdle
SpecPlane == InitPlane /\ [][PlNext]_vars

InitBuild ==
    SnIdle /\ FssIdle /\ PlIdle /\ BdInit /\ XsIdle /\ McIdle /\ CmIdle /\ MnIdle
SpecBuild == InitBuild /\ [][BdNext]_vars

InitXs ==
    SnIdle /\ FssIdle /\ PlIdle /\ BdInit /\ XsInit /\ McIdle /\ CmIdle /\ MnIdle
SpecXs == InitXs /\ [][XsNext]_vars

InitMc ==
    SnIdle /\ FssIdle /\ PlIdle /\ BdInit /\ XsIdle /\ McInit /\ CmIdle /\ MnIdle
SpecMc == InitMc /\ [][McNext]_vars

InitCoreMesh ==
    SnIdle /\ FssIdle /\ PlIdle /\ BdInit /\ XsIdle /\ McIdle /\ CmInit /\ MnIdle
SpecCoreMesh == InitCoreMesh /\ [][CmNext]_vars

InitMain ==
    SnIdle /\ FssIdle /\ PlIdle /\ BdInit /\ XsIdle /\ McIdle /\ CmIdle /\ MnInit
SpecMain == InitMain /\ [][MnNext]_vars

\* ======================================================== claims: Sn sweep
InSweep == sn_pc \in {"inner", "angle", "cell", "angle_end", "done"}
InSweep1g == sn_pc \in {"angle", "cell", "angle_end"}

\* C1: with CoarseData attached and n_inner >= 1, sweep(group) zeroes the
\* group's currents exactly once, right before the last inner; only that
\* inner runs the capturing worker, the earlier ones run the no-op worker and
\* leave CoarseData as it was; with no CoarseData every inner runs the no-op
\* worker.
C1_CurrentsOnLastInner ==
    InSweep =>
      /\ \A k \in 1 .. Len(sn_log) :
            /\ sn_log[k].inner = k - 1
            /\ (sn_log[k].worker = "Current") <=> (coarse_attached /\ k = n_inner_)
            /\ sn_log[k].zeroed <=> (coarse_attached /\ k = n_inner_)
      /\ InSweep1g =>
            ((worker = "Current") <=> (coarse_attached /\ inner = n_inner_ - 1))
      /\ (sn_pc = "done" /\ coarse_attached /\ n_inner_ >= 1) =>
            /\ Len(sn_log) = n_inner_
            /\ Cardinality({k \in 1 .. Len(sn_log) : sn_log[k].zeroed}) = 1
      /\ (~coarse_attached \/ Len(sn_log) < n_inner_) => coarse_data_ = CoarseInit
      /\ (coarse_attached /\ n_inner_ >= 1 /\ Len(sn_log) = n_inner_) =>
            /\ \A g \in Groups \ {group} : coarse_data_.cur[g] = CoarseInit.cur[g]
            /\ \A c \in coarse_data_.cur[group] : c.inner = n_inner_ - 1
            /\ (sn_pc = "angle" /\ iang = 0) => coarse_data_.cur[group] = {}

C1_Witness ==
    /\ sn_pc = "done"
    /\ coarse_attached
    /\ n_inner_ = 2
    /\ coarse_data_.cur[group] # {}
    /\ sn_log[1].worker = "NoCurrent"

\* The last x index the x loop of angle a visits, and likewise for y and z.
LastIx(a) == IF Ang(a).ox < 0 THEN 0 ELSE mesh_.nx - 1
LastIy(a) == IF Ang(a).oy < 0 THEN 0 ELSE mesh_.ny - 1
LastIz(a) == IF Ang(a).oz < 0 THEN 0 ELSE mesh_.nz - 1

\* The faces angle a of inner k leaves behind: each slot holds what the last
\* cell of its row wrote.
OutFaces(k, a) ==
    [X |-> [s \in 0 .. (FaceSize(mesh_, "X") - 1) |->
              OutTag(k, a, coarse_cell(mesh_, LastIx(a), s % mesh_.ny, s \div mesh_.ny), "X")],
     Y |-> [s \in 0 .. (FaceSize(mesh_, "Y") - 1) |->
              OutTag(k, a, coarse_cell(mesh_, s % mesh_.nx, LastIy(a), s \div mesh_.nx), "Y")],
     Z |-> [s \in 0 .. (FaceSize(mesh_, "Z") - 1) |->
              OutTag(k, a, coarse_cell(mesh_, s % mesh_.nx, s \div mesh_.nx, LastIz(a)), "Z")]]

\* The inner iteration whose outgoing faces an entry of bc_in_ holds (-1 for
\* the value held before the sweep).
FaceInner(f) == {f[s].inner : s \in DOMAIN f}

\* C2, between angles: under gs_boundary the faces of the angle just finished
\* already stand in bc_in_, so that a later angle that reflects from it loads
\* this inner's values; without gs_boundary every angle loads the bc_in_ of
\* the start of the one-group sweep.
C2_BetweenAngles ==
    /\ (sn_pc = "angle" /\ iang >= 1 /\ gs_boundary_) =>
          \A n \in Normals :
             /\ bc_out_[iang - 1][n] = OutFaces(inner, iang - 1)[n]
             /\ bc_in_[group][Reflect(iang - 1, n)][n] = bc_out_[iang - 1][n]
    /\ (sn_pc = "cell" /\ visited = <<>>) =>
          \A n \in Normals :
             /\ faces[n] = bc_in_[group][iang][n]
             /\ FaceInner(faces[n]) =
                  IF gs_boundary_ /\ Reflect(iang, n) < iang
                  THEN {inner} ELSE {inner - 1}
    /\ (sn_pc = "inner" /\ inner >= 1) =>
          \A a \in Angles : \A n \in Normals :
             bc_in_[group][Reflect(a, n)][n] = OutFaces(inner - 1, a)[n]

\* C2, steps: without gs_boundary bc_in_ changes only in the step that ends
\* the one-group sweep, after the last angle, and then takes bc_out_ of every
\* angle; under gs_boundary it changes only at the end of an angle.
C2_Steps ==
    [][(bc_in_' # bc_in_) =>
         IF gs_boundary_
         THEN sn_pc = "angle_end" /\ sn_pc' = "angle"
         ELSE /\ sn_pc = "angle" /\ iang = NAng /\ sn_pc' = "inner"
              /\ \A a \in Angles : \A n \in Normals :
                    bc_in_'[group][Reflect(a, n)][n] = bc_out_[a][n]]_vars

\* C2: the boundary update of a one-group sweep is Gauss-Seidel in angle under
\* gs_boundary and Jacobi in angle otherwise.
C2_BoundaryUpdate == []C2_BetweenAngles /\ C2_Steps

C2_Witness ==
    /\ gs_boundary_
    /\ sn_pc = "cell"
    /\ visited = <<>>
    /\ inner = 1
    /\ \E n \in Normals : FaceInner(faces[n]) = {1}
    /\ \E n \in Normals : FaceInner(faces[n]) = {0}

\* What the claim says a cell reads along one axis: the value its upwind
\* neighbour wrote, or the incoming boundary value for the first cell.
Upwind(c, n, cosine, len, slot) ==
    LET u == IF cosine >= 0 THEN c - 1 ELSE c + 1
    IN [inside |-> u \in 0 .. (len - 1), u |-> u,
        bc |-> bc_in_[group][iang][n][slot]]

\* C3: within an angle every cell is evaluated once, each axis is walked
\* upwards for a non-negative cosine and downwards for a negative one, and a
\* cell reads on each axis what its upwind neighbour wrote, or the incoming
\* boundary value when it is the first cell on that axis.
C3_UpwindOrder ==
    sn_pc \in {"cell", "angle_end"} =>
      LET s == Ang(iang)
          nx == mesh_.nx
          ny == mesh_.ny
          nz == mesh_.nz
          Before(j, k) == j < k
      IN /\ \A k \in 1 .. Len(visited) :
              LET e == visited[k]
                  ux == Upwind(e.ix, "X", s.ox, nx, ny * e.iz + e.iy)
                  uy == Upwind(e.iy, "Y", s.oy, ny, nx * e.iz + e.ix)
                  uz == Upwind(e.iz, "Z", s.oz, nz, nx * e.iy + e.ix)
              IN /\ e.cell = coarse_cell(mesh_, e.ix, e.iy, e.iz)
                 /\ \A j \in 1 .. (k - 1) : visited[j].cell # e.cell
                 /\ IF ux.inside
                    THEN /\ \E j \in 1 .. (k - 1) :
                               /\ visited[j].ix = ux.u
                               /\ visited[j].iy = e.iy
                               /\ visited[j].iz = e.iz
                         /\ e.psi_x = OutTag(inner, iang,
                                 coarse_cell(mesh_, ux.u, e.iy, e.iz), "X")
                    ELSE e.psi_x = ux.bc
                 /\ IF uy.inside
                    THEN /\ \E j \in 1 .. (k - 1) :
                               /\ visited[j].ix = e.ix
                               /\ visited[j].iy = uy.u
                               /\ visited[j].iz = e.iz
                         /\ e.psi_y = OutTag(inner, iang,
                                 coarse_cell(mesh_, e.ix, uy.u, e.iz), "Y")
                    ELSE e.psi_y = uy.bc
                 /\ IF uz.inside
                    THEN /\ \E j \in 1 .. (k - 1) :
                               /\ visited[j].ix = e.ix
                               /\ visited[j].iy = e.iy
                               /\ visited[j].iz = uz.u
                         /\ e.psi_z = OutTag(inner, iang,
                                 coarse_cell(mesh_, e.ix, e.iy, uz.u), "Z")
                    ELSE e.psi_z = uz.bc
         /\ sn_pc = "angle_end" =>
              /\ Len(visited) = NCells(mesh_)
              /\ {visited[k].cell : k \in 1 .. Len(visited)} = Cells(mesh_)

C3_Witness ==
    /\ sn_pc = "angle_end"
    /\ mesh_ = [nx |-> 2, ny |-> 2, nz |-> 2]
    /\ Ang(iang) = [ox |-> -1, oy |-> 1, oz |-> -1]
    /\ visited[1].cell = coarse_cell(mesh_, 1, 0, 1)
    /\ visited[2].psi_x = OutTag(inner, iang, coarse_cell(mesh_, 1, 0, 1), "X")

\* C5: sweep(group) with n_inner = N runs N one-group sweeps, and the source
\* of each is built from the one-group flux of the inner before it, or from
\* the stored flux of the group for the first.
C5_SourceFromPrecedingInner ==
    /\ InSweep1g =>
          /\ Len(sn_log) = inner + 1
          /\ inner < n_inner_
          /\ \A i \in Cells(mesh_) :
                /\ q_[i].g = group
                /\ IF inner = 0
                   THEN q_[i].phi = flux_[group][i]
                   ELSE /\ Len(q_[i].phi) = NAng
                        /\ \A c \in 1 .. NAng : q_[i].phi[c].inner = inner - 1
    /\ sn_pc = "done" => Len(sn_log) = n_inner_

C5_Witness ==
    /\ sn_pc = "done"
    /\ n_inner_ = 2
    /\ Len(sn_log) = 2
    /\ \A i \in Cells(mesh_) : q_[i].phi[1].inner = 0

\* C9: the constructor throws for an empty node and for an n_inner that is
\* negative or missing, and otherwise stores n_inner as given.
C9_CtorChecksInput ==
    sn_pc # "new" =>
      /\ sn_input.empty =>
            /\ sn_pc = "failed"
            /\ sn_err = "No input specified to initialize Sn sweeper."
      /\ (~sn_input.empty /\ (~sn_input.n_inner.present \/ sn_input.n_inner.val < 0)) =>
            /\ sn_pc = "failed"
            /\ sn_err = "Invalid number of inner iterations specified (n_inner)."
      /\ (~sn_input.empty /\ sn_input.n_inner.present /\ sn_input.n_inner.val >= 0) =>
            /\ sn_pc # "failed"
            /\ sn_err = "none"
            /\ n_inner_ = sn_input.n_inner.val

C9_Witness ==
    /\ sn_pc = "done"
    /\ sn_input.n_inner = Attr(0)
    /\ n_inner_ = 0

\* ============================================ claims: fixed-source solver
RECURSIVE ExpectedCalls(_)
\* store_old_flux, then fission, in_scatter, sweep for groups 0 .. n-1.
ExpectedCalls(n) ==
    IF n = 0 THEN <<Call("store_old_flux", -1)>>
    ELSE ExpectedCalls(n - 1)
         \o <<Call("fission", n - 1), Call("in_scatter", n - 1), Call("sweep", n - 1)>>

IsPrefix(a, b) == Len(a) <= Len(b) /\ \A k \in 1 .. Len(a) : a[k] = b[k]

\* C4: a step() calls store_old_flux once, before any group, then takes the
\* groups 0 .. ng-1 in ascending order, once each, calling fission,
\* in_scatter and sweep in that order for each.
C4_StepCallOrder ==
    /\ fss_calls # <<>> => IsPrefix(fss_calls, ExpectedCalls(ng_))
    /\ fss_pc = "loop" => fss_calls = ExpectedCalls(ig)
    /\ (fss_pc = "idle" /\ fss_steps >= 1) =>
          /\ fss_calls = ExpectedCalls(ng_)
          /\ \A g \in 0 .. (ng_ - 1) : swp_flux[g] = fss_steps
          /\ \A g \in 0 .. (ng_ - 1) : swp_flux_old[g] = fss_steps - 1

C4_Witness ==
    /\ fss_pc = "idle"
    /\ fss_steps = 2
    /\ ng_ = 2
    /\ Len(fss_calls) = 7
    /\ fss_calls[5] = Call("fission", 1)

\* A step() was ended by the error of the fission source check.
StepFailed == fss_pc = "failed" /\ fss_err = "No fission source associated!"

\* C8, states: with no fission source and at least one group, a step() gets
\* no further than store_old_flux, and what ends it is the 'No fission source
\* associated!' error.
C8_NoCallsWithoutSource ==
    /\ (fs_ = "null" /\ ng_ >= 1 /\ (fss_pc \in {"loop", "body"} \/ StepFailed)) =>
          /\ fss_calls = <<Call("store_old_flux", -1)>>
          /\ fss_pc \in {"loop", "failed"}
          /\ swp_flux = [g \in 0 .. (MaxFssGroups - 1) |-> 0]
    /\ StepFailed =>
          /\ fs_ = "null"
          /\ fss_calls = <<Call("store_old_flux", -1)>>
          /\ swp_flux = [g \in 0 .. (MaxFssGroups - 1) |-> 0]

\* C8, steps: the step after store_old_flux is the failure.
C8_FailsAtFirstGroup ==
    [][(fs_ = "null" /\ ng_ >= 1 /\ fss_pc = "loop") =>
          (fss_pc' = "failed" /\ fss_err' = "No fission source associated!")]_vars

\* C8: step() without a fission source fails before any fission, in_scatter
\* or sweep call; only store_old_flux has been called.
C8_FailsBeforeAnyGroupCall == []C8_NoCallsWithoutSource /\ C8_FailsAtFirstGroup

C8_Witness ==
    /\ StepFailed
    /\ ng_ = 2
    /\ fss_calls = <<Call("store_old_flux", -1)>>

\* ================================================ claims: 2D3D composite
HasCall(calls, op) == \E k \in 1 .. Len(calls) : calls[k].op = op
CallCount(calls, op) == Cardinality({k \in 1 .. Len(calls) : calls[k].op = op})

\* C6: the MoC sweep of a group is left out exactly when i_outer is below
\* n_inactive_moc or is no multiple of moc_modulo, the corrections then being
\* those of an earlier outer; otherwise it runs, before the Sn sweep of the
\* group.
C6_MocSkipRule ==
    pl_group >= 0 =>
      LET skip == \/ i_outer_ < pl_opts.n_inactive_moc
                  \/ i_outer_ % pl_opts.moc_modulo # 0
      IN /\ HasCall(pl_calls, "moc_sweep") <=> ~skip
         /\ CallCount(pl_calls, "moc_sweep") <= 1
         /\ CallCount(pl_calls, "sn_sweep") = 1
         /\ \A j, k \in 1 .. Len(pl_calls) :
               (pl_calls[j].op = "moc_sweep" /\ pl_calls[k].op = "sn_sweep") =>
                  (j < k /\ pl_calls[j].g = pl_group /\ pl_calls[k].g = pl_group)
         /\ skip => pl_corr[pl_group] < i_outer_
         /\ ~skip => pl_corr[pl_group] = i_outer_

C6_Witness ==
    /\ pl_group = 1
    /\ i_outer_ = 2
    /\ pl_opts.n_inactive_moc = 1
    /\ pl_opts.moc_modulo = 2
    /\ HasCall(pl_calls, "moc_sweep")
    /\ pl_corr[0] = 2

\* ================================================== claims: construction
\* C7: the factory returns a sweeper for the types moc, sn and 2d3d, and
\* throws only for another type.
C7_FactoryKnowsThreeTypes ==
    bd_op = "factory" =>
       ((fac_result # "exception") <=> (fac_type \in {"moc", "sn", "2d3d"}))

\* C10: the assembly stored at (ix, iy), iy = 0 being the bottom row, is the
\* one named in row ny-1-iy, column ix of the core node's id list.
C10_CoreFlipsRows ==
    (bd_op = "core" /\ core_.status = "ok") =>
       \A ix \in 0 .. (core_.nx - 1) : \A iy \in 0 .. (core_.ny - 1) :
          CoreAt(core_, ix, iy) =
             core_input.ids[(core_.ny - 1 - iy) * core_.nx + ix + 1]

\* The ids of the assemblies a core node places: the first nx*ny of its list.
Placed(in) ==
    {in.ids[k] : k \in 1 .. (as_int(in.nx, -1) * as_int(in.ny, -1))}
\* A core node with proper dimensions and nx*ny ids that all name assemblies.
Placeable(in) ==
    /\ as_int(in.nx, -1) >= 1
    /\ as_int(in.ny, -1) >= 1
    /\ Len(in.ids) >= as_int(in.nx, -1) * as_int(in.ny, -1)
    /\ \A k \in 1 .. (as_int(in.nx, -1) * as_int(in.ny, -1)) :
          in.ids[k] \in DOMAIN Assemblies
SameNz(S) == \A a, b \in S : Assemblies[a].nz = Assemblies[b].nz
SameHz(S) == \A a, b \in S : Assemblies[a].hz = Assemblies[b].hz

\* C11: a Core is constructed only from assemblies that all have the same
\* number of planes and, plane by plane, the same heights; assemblies that
\* differ in the number of planes or in the height of some plane end the
\* construction with the matching incompatibility error.
C11_CoreAssembliesCompatible ==
    bd_op = "core" =>
       /\ core_.status = "ok" =>
             (Placeable(core_input) /\ SameNz(Placed(core_input))
                /\ SameHz(Placed(core_input)))
       /\ (Placeable(core_input) /\ ~SameNz(Placed(core_input))) =>
             /\ core_.status = "error"
             /\ core_.err =
                  "Assemblies in the core have incompatible numbers of planes."
       /\ (Placeable(core_input) /\ SameNz(Placed(core_input))
              /\ ~SameHz(Placed(core_input))) =>
             /\ core_.status = "error"
             /\ core_.err = "Assemblies have incompatible plane heights in core."

\* Two assemblies of two planes each that differ on the second plane only.
C11_Witness ==
    /\ bd_op = "core"
    /\ Placeable(core_input)
    /\ Placed(core_input) = {3, 5}
    /\ core_.err = "Assemblies have incompatible plane heights in core."

\* An assembly node whose id and np attributes pass the constructor's first
\* two checks.
AsyIdAndPlanesValid(in) == as_int(in.id, 0) # 0 /\ as_int(in.np, 0) # 0

\* C12: an assembly node that carries both an hz attribute and an <hz> child
\* ends the construction with the over-specification error, whatever the
\* value of the attribute.
C12_OverSpecifiedHeightsFail ==
    (bd_op = "assembly" /\ AsyIdAndPlanesValid(asy_input)
       /\ asy_input.hz.present /\ asy_input.hz_child.present) =>
          /\ asy_.status = "error"
          /\ asy_.err = "Plane heights are over-specified for assembly."

\* C13: an Assembly constructed from a node that gives the plane heights, by
\* a positive hz attribute or by an <hz> child, holds one height per plane.
C13_OneHeightPerPlane ==
    (bd_op = "assembly" /\ asy_.status = "ok"
       /\ (ScalarHz(asy_input.hz) \/ asy_input.hz_child.present)) =>
          /\ Len(asy_.hz) = asy_.nz
          /\ \A i \in 1 .. asy_.nz : i \in DOMAIN asy_.hz

\* ================================================ claims: cross sections
\* How often region r stands in the list q.
Occurrences(q, r) == Cardinality({k \in 1 .. Len(q) : q[k] = r})

\* C14: the XSMesh has one region per material of the library, and every flat
\* source region of the mesh stands in the list of exactly one of them, once.
C14_FineRegionsPartition ==
    xs_op = "fine" =>
       /\ DOMAIN fine_regions_ = 0 .. (n_materials - 1)
       /\ \A r \in 0 .. (MeshNReg(xs_mesh) - 1) :
             /\ \E imat \in DOMAIN fine_regions_ :
                   /\ Occurrences(fine_regions_[imat].fsrs, r) = 1
                   /\ \A other \in DOMAIN fine_regions_ \ {imat} :
                         Occurrences(fine_regions_[other].fsrs, r) = 0
       /\ \A imat \in DOMAIN fine_regions_ :
             \A k \in 1 .. Len(fine_regions_[imat].fsrs) :
                fine_regions_[imat].fsrs[k] \in 0 .. (MeshNReg(xs_mesh) - 1)

\* Two pins that share a material, the second one of two XS regions, and a
\* material of the library no pin holds.
C14_Witness ==
    /\ xs_op = "fine"
    /\ Len(xs_mesh) = 2
    /\ MeshNReg(xs_mesh) = 3
    /\ fine_regions_[0].fsrs = <<0, 2>>
    /\ fine_regions_[1].fsrs = <<1>>
    /\ fine_regions_[2].fsrs = <<>>

\* C15: the xskf of every region of the XSMesh is the kappa-fission cross
\* section of the region's material.
C15_FineRegionCarriesKappaFission ==
    xs_op = "fine" =>
       \A imat \in DOMAIN fine_regions_ : \A g \in XsGroups :
          fine_regions_[imat].xskf[g] = Rat(MaterialLib[matv[imat + 1]].xskf[g + 1], 1)

\* A pin all of whose XS regions hold the material with library key id.
HoldsOnly(pin, id) == \A k \in 1 .. Len(pin.mat_ids) : pin.mat_ids[k] = id
\* xstr, xsnf, xskf and the scattering matrix of a region are the material's.
CarriesMaterial(reg, mat) ==
    \A g \in XsGroups :
       /\ reg.xstr[g] = Rat(MatXstr(mat, g), 1)
       /\ reg.xsnf[g] = Rat(mat.xsnf[g + 1], 1)
       /\ reg.xskf[g] = Rat(mat.xskf[g + 1], 1)
       /\ \A gg \in XsGroups : reg.xssc[g][gg] = Rat(mat.xssc[g + 1][gg + 1], 1)

\* C16 as stated: in the volume-weighted build a pin of one material carries
\* that material's xstr, xsnf, xskf, chi and scattering matrix, also when the
\* material's nu-fission is zero in all groups.
C16_OneMaterialPinCarriesIt ==
    xs_op = "hom" =>
       \A ipin \in DOMAIN regions_ : \A id \in DOMAIN MaterialLib :
          HoldsOnly(xs_mesh[ipin + 1], id) =>
             /\ CarriesMaterial(regions_[ipin], MaterialLib[id])
             /\ \A g \in XsGroups :
                   regions_[ipin].xsch[g] = Rat(MaterialLib[id].xsch[g + 1], 1)

\* C16 amended: in the volume-weighted build a pin of one material carries
\* that material's xstr, xsnf, xskf and scattering matrix; its chi is the
\* material's when the material's nu-fission is positive in some group, and
\* zero in every group otherwise.
C16_OneMaterialPinChiByFission ==
    xs_op = "hom" =>
       \A ipin \in DOMAIN regions_ : \A id \in DOMAIN MaterialLib :
          HoldsOnly(xs_mesh[ipin + 1], id) =>
             /\ CarriesMaterial(regions_[ipin], MaterialLib[id])
             /\ \A g \in XsGroups :
                   regions_[ipin].xsch[g] =
                      IF SumSeq(MaterialLib[id].xsnf) > 0
                      THEN Rat(MaterialLib[id].xsch[g + 1], 1)
                      ELSE Rat(0, 1)

\* A pin of two XS regions of the material that fissions in no group, next to
\* a pin of the fissile material.
C16_Witness ==
    /\ xs_op = "hom"
    /\ Len(xs_mesh) = 2
    /\ xs_mesh[1].mat_ids = <<8, 8>>
    /\ xs_mesh[2].mat_ids = <<2>>
    /\ regions_[0].xsch[0] = Rat(0, 1)
    /\ regions_[1].xsch[0] = Rat(1, 1)

ZeroFlux == \A k \in DOMAIN xs_flux : xs_flux[k] = 0

\* C17: update() with a flux that is zero everywhere leaves chi at zero in
\* every pin and group, the zero fission-source sum dividing nothing.
C17_ZeroFluxChiZero ==
    (xs_op = "update" /\ ZeroFlux) =>
       \A ipin \in DOMAIN regions_ : \A g \in XsGroups :
          regions_[ipin].xsch[g] = Rat(0, 1)

C17_Witness ==
    /\ xs_op = "update"
    /\ ZeroFlux
    /\ Len(xs_mesh) = 2
    /\ xs_mesh[1].mat_ids = <<2, 5>>
    /\ regions_[0].xsch[0] = Rat(0, 1)

\* C18: update() divides by no zero weight sum: every cross section of every
\* region is a finite number after the call.
C18_UpdateDividesByNoZero ==
    xs_op = "update" =>
       \A ipin \in DOMAIN regions_ : \A g \in XsGroups :
          /\ Finite(regions_[ipin].xstr[g])
          /\ Finite(regions_[ipin].xsnf[g])
          /\ Finite(regions_[ipin].xskf[g])
          /\ Finite(regions_[ipin].xsch[g])
          /\ \A gg \in XsGroups : Finite(regions_[ipin].xssc[g][gg])

UniformFlux == \A j, k \in DOMAIN xs_flux : xs_flux[j] = xs_flux[k] /\ xs_flux[k] > 0

\* C19: an update() with the flux of the update() before it leaves every
\* region as it was, and the regions of an update() with a uniform flux are
\* those of the volume-weighted build.
C19_UpdateIdempotentAndUniform ==
    xs_op = "update" =>
       /\ xs_repeat => xs_unchanged
       /\ UniformFlux => regions_ = XSMeshHomogenizedCtor(xs_mesh)

\* C20: the chi weight update() computes for region r of a pin is the sum over
\* the groups of xsnf * flux * volume, with the material, the flux and the
\* volume of region r.
C20_ChiWeightOfOwnRegion ==
    xs_op = "update" =>
       \A ipin \in DOMAIN xs_fs :
          LET pin == xs_mesh[ipin + 1]
              first_reg == FirstRegion(xs_mesh, ipin + 1)
          IN \A l \in 0 .. (PinNReg(pin) - 1) :
                xs_fs[ipin][l] =
                   SumSeq([g \in 1 .. xs_ng |->
                      MatOf(pin, l).xsnf[g]
                        * xs_flux[first_reg + l + (g - 1) * MeshNReg(xs_mesh)]
                        * pin.vols[l + 1]])

\* C21: after update() every entry of a pin's scattering matrix, from group
\* gg into group g, is the sum over the pin's regions of flux * volume *
\* scattering divided by the sum of volume * flux of the source group gg,
\* whatever the sign of the numerator.
C21_ScatteringBySourceGroupFlux ==
    xs_op = "update" =>
       \A ipin \in DOMAIN regions_ : \A g, gg \in XsGroups :
          LET pin == xs_mesh[ipin + 1]
              first_reg == FirstRegion(xs_mesh, ipin + 1)
              phi(l) == xs_flux[first_reg + l + gg * MeshNReg(xs_mesh)]
              num == PinSum(pin, [l \in PinRegs(pin) |->
                        phi(l) * pin.vols[l + 1] * MatOf(pin, l).xssc[g + 1][gg + 1]])
              den == PinSum(pin, [l \in PinRegs(pin) |-> pin.vols[l + 1] * phi(l)])
          IN den # 0 => regions_[ipin].xssc[g][gg] = Rat(num, den)

\* =========================================== claims: frame of the Sn sweep
\* The multi-group flux, the incoming and the outgoing boundary fluxes before
\* the sweep.
FluxBefore == [g \in Groups |-> [i \in Cells(mesh_) |-> <<[inner |-> -1, ang |-> g]>>]]
BcInBefore ==
    [g \in Groups |-> [a \in Angles |-> [n \in Normals |->
        [k \in 0 .. (FaceSize(mesh_, n) - 1) |-> InitTag(a, n, k)]]]]
BcOutBefore ==
    [a \in Angles |-> [n \in Normals |->
        [k \in 0 .. (FaceSize(mesh_, n) - 1) |-> ZeroTag]]]

\* C28: sweep(group) leaves flux(., g') alone for every other group g', during
\* the sweep and after it; after a sweep of at least one inner flux(., group)
\* holds, in every cell, one contribution per angle of the quadrature, all of
\* the last inner.
C28_SweepWritesOwnGroup ==
    InSweep =>
       /\ \A g \in Groups \ {group} : flux_[g] = FluxBefore[g]
       /\ sn_pc # "done" => flux_[group] = FluxBefore[group]
       /\ (sn_pc = "done" /\ n_inner_ >= 1) =>
             \A i \in Cells(mesh_) :
                /\ Len(flux_[group][i]) = NAng
                /\ \A a \in Angles :
                      Cardinality({k \in 1 .. NAng :
                          flux_[group][i][k] = [inner |-> n_inner_ - 1, ang |-> a]}) = 1

C28_Witness ==
    /\ sn_pc = "done"
    /\ n_inner_ = 2
    /\ group = 1
    /\ NCells(mesh_) > 1
    /\ flux_[1][0][1].inner = 1

\* C29: with n_inner = 0 sweep(group) sweeps nothing and leaves the flux, the
\* boundary fluxes and CoarseData as they were, CoarseData attached or not;
\* with n_inner >= 1 and CoarseData attached both data flags are set after it.
C29_NoInnerNoEffect ==
    sn_pc = "done" =>
       /\ n_inner_ = 0 =>
             /\ sn_log = <<>>
             /\ flux_ = FluxBefore
             /\ bc_in_ = BcInBefore
             /\ bc_out_ = BcOutBefore
             /\ coarse_data_ = CoarseInit
       /\ (n_inner_ >= 1 /\ coarse_attached) =>
             /\ coarse_data_.has_axial_data
             /\ coarse_data_.has_radial_data
             /\ StaleCur \notin coarse_data_.cur[group]

C29_Witness ==
    /\ sn_pc = "done"
    /\ n_inner_ = 0
    /\ sn_input.n_inner = Attr(0)
    /\ coarse_attached
    /\ ~coarse_data_.has_axial_data
    /\ StaleCur \in coarse_data_.cur[group]

\* C25: set_coarse_data(cd) hands cd to the composite, to the MoC sweeper and
\* to the Sn sweeper, and allocates the transverse-leakage workspace tl_.
C25_SetCoarseDataAllocatesTl ==
    pl_cd.self = "cd" =>
       /\ pl_cd.moc = "cd"
       /\ pl_cd.sn = "cd"
       /\ pl_tl = "allocated"

\* ================================== claims: Monte Carlo eigenvalue solver
\* The sequence of n copies of x.
Copies(n, x) == [k \in 1 .. n |-> x]

\* The larger of two integers.
Max(a, b) == IF a >= b THEN a ELSE b

\* Number of steps made in active cycles.
ActiveSteps == Cardinality({k \in DOMAIN mc_steps : mc_steps[k]})

\* C30: solve() makes n_inactive_cycles inactive steps and then
\* max(0, n_cycles - n_inactive_cycles + 1) active steps; k_history and
\* h_history gain one entry on every step; the k tally, the flux tallies and the
\* k_mean / k_stdev histories are scored on the active steps only; after every
\* step the source bank holds particles_per_cycle particles with the ids
\* 0 .. particles_per_cycle - 1 in bank order.
C30_InactiveThenActiveSteps ==
    /\ mc_pc = "done" =>
          mc_steps = Copies(n_inactive_cycles_, FALSE)
                     \o Copies(Max(0, n_cycles_ - n_inactive_cycles_ + 1), TRUE)
    /\ \A j, k \in DOMAIN mc_steps : (j < k /\ mc_steps[j]) => mc_steps[k]
    /\ Len(k_history_) = Len(mc_steps)
    /\ Len(h_history_) = Len(mc_steps)
    /\ k_tally_.weight = ActiveSteps
    /\ Len(k_tally_.scores) = ActiveSteps
    /\ \A g \in Groups :
          /\ flux_tallies_[g].weight = ActiveSteps
          /\ Len(flux_tallies_[g].scores) = ActiveSteps
    /\ Len(k_mean_history_) = ActiveSteps
    /\ Len(k_stdev_history_) = ActiveSteps
    /\ \A k \in DOMAIN k_tally_.scores : k_tally_.scores[k] > 0
    /\ mc_steps # <<>> =>
          /\ Len(source_bank_) = particles_per_cycle_
          /\ \A k \in DOMAIN source_bank_ : source_bank_[k].id = k - 1

C30_Witness ==
    /\ mc_pc = "done"
    /\ n_inactive_cycles_ = 1
    /\ n_cycles_ = 2
    /\ mc_steps = <<FALSE, TRUE, TRUE>>
    /\ particles_per_cycle_ = 2
    /\ source_bank_[1].site # source_bank_[2].site

\* ====================================================== claims: CoreMesh
\* The pin node carries both ids, names a pin mesh and lists a material.
PinReadable(pin) ==
    /\ pin.id.present
    /\ pin.mesh.present
    /\ pin.mesh.val \in DOMAIN PinMeshes
    /\ pin.text # <<>>

\* C26: a pin definition is accepted exactly when it lists as many material
\* ids as the pin mesh named by its mesh attribute has XS regions, whatever the
\* pin id; otherwise it fails with "Wrong number of materials specified in pin
\* definition".
C26_PinAcceptedByMeshRegions ==
    (cm_pc # "pin" /\ PinReadable(cm_input.pin)) =>
        IF Len(cm_input.pin.text) = PinMeshes[cm_input.pin.mesh.val].n_xsreg
        THEN pins_.status = "ok"
        ELSE /\ pins_.status = "error"
             /\ pins_.err = "Wrong number of materials specified in pin definition"

\* The children of the input node with the given name, in document order.
ChildrenNamed(name) ==
    LET ks == {k \in DOMAIN cm_input.children : cm_input.children[k].name = name}
    IN [k \in ks |-> [at |-> "child", k |-> k]]

\* The nodes of the given name the loops parsed.
VisitsNamed(name) ==
    {j \in DOMAIN cm_visits : NodeAt(cm_input, cm_visits[j]).name = name}

\* C27: the lattice loop and the assembly loop parse every lattice child and
\* every assembly child of the input node once, and nothing else, and register
\* each under its id.
C27_EveryChildVisitedOnce ==
    /\ \A i, j \in DOMAIN cm_visits : cm_visits[i] = cm_visits[j] => i = j
    /\ cm_pc \in {"assembly_first", "assembly", "core"} =>
          /\ \A k \in DOMAIN ChildrenNamed("lattice") :
                \E j \in VisitsNamed("lattice") : cm_visits[j] = ChildrenNamed("lattice")[k]
          /\ \A k \in DOMAIN ChildrenNamed("lattice") :
                /\ cm_input.children[k].id \in DOMAIN lattices_
                /\ lattices_[cm_input.children[k].id] = [at |-> "child", k |-> k]
    /\ cm_pc = "core" =>
          /\ \A k \in DOMAIN ChildrenNamed("assembly") :
                \E j \in VisitsNamed("assembly") : cm_visits[j] = ChildrenNamed("assembly")[k]
          /\ \A k \in DOMAIN ChildrenNamed("assembly") :
                /\ cm_input.children[k].id \in DOMAIN assemblies_
                /\ assemblies_[cm_input.children[k].id] = [at |-> "child", k |-> k]

\* ========================================================== claims: main
\* C22: a run whose solve() returns without error has written the solver
\* output to out.h5 when the process exits with code 0.
C22_OutputWrittenOnSuccess ==
    mn_exit = "0" => out_h5 = "written"

\* C23: a SIGINT taken once the handler is installed leaves the solver output
\* written to out.h5, and the handler never calls output through a solver
\* pointer that is still null.
C23_SigintFlushesOutput ==
    mn_sigint => (out_h5 = "written" /\ ~mn_null_output)

\* C24: a core naming an unknown assembly id reaches main's handler as a mocc
\* Exception, and the process exits with code 1.
C24_UnknownAssemblyExitsOne ==
    mn_core.status = "out_of_range" => (mn_caught = "Exception" /\ mn_exit = "1")

====
